---------------------------- MODULE Spec2Model ----------------------------
(***************************************************************************)
(* A.U.R.A: the remote service's per-device circuit breaker and the        *)
(* identification proxy that uses it (backend/app/routes/aura.py), and the *)
(* device's backend connectivity coordinator                               *)
(* (auramodule/app/services/backend_client.py).                            *)
(*                                                                         *)
(* SpecCB  : circuit breaker + identify_person proxy + module registry     *)
(* SpecBC  : BackendClient.register, heartbeat loop, disconnect handling   *)
(***************************************************************************)
EXTENDS Integers, Sequences, FiniteSets, TLC

(***************************************************************************)
(* Bounds of the model                                                     *)
(***************************************************************************)
MaxTime == 60          \* the clock stops advancing here
TickStep == 15         \* seconds the clock advances in one Tick
MaxFailures == 7       \* no record_failure is modelled past this count
MaxInFlight == 2       \* proxied requests that can be in flight together

Devices == {"p1"}
ReqIds == 1..MaxInFlight

(***************************************************************************)
(* CircuitBreaker (aura.py:23-65)                                          *)
(***************************************************************************)
failure_threshold == 5
recovery_timeout == 30
NoTime == -1           \* last_failure_time = None
NoPayload == "None"    \* cached_response = None

PayloadConnect == "Connection failed"
PayloadTimeout == "Request timed out"
PayloadError == "str(e)"
Payloads == {PayloadConnect, PayloadTimeout, PayloadError}

\* CircuitBreaker.__init__
NewBreaker ==
    [failures |-> 0, last_failure_time |-> NoTime, state |-> "closed",
     cached_response |-> NoPayload]

\* Python truthiness of an Optional[dict] fallback: None is falsy, the
\* payload dicts the proxy builds are non-empty, hence truthy.
Truthy(p) == p # NoPayload

record_success_keeps_cache(b) ==
    [b EXCEPT !.failures = 0, !.state = "closed"]

record_success(b) ==
    [b EXCEPT !.failures = 0, !.state = "closed", !.cached_response = NoPayload]

record_failure_strict(b, cached_response, t) ==
    LET n == b.failures + 1 IN
    [b EXCEPT !.failures = n,
              !.last_failure_time = t,
              !.cached_response = IF Truthy(cached_response)
                                  THEN cached_response ELSE @,
              !.state = IF n > failure_threshold THEN "open" ELSE @]

record_failure_drops_payload(b, cached_response, t) ==
    LET n == b.failures + 1 IN
    [b EXCEPT !.failures = n,
              !.last_failure_time = t,
              !.state = IF n >= failure_threshold THEN "open" ELSE @]

record_failure(b, cached_response, t) ==
    LET n == b.failures + 1 IN
    [b EXCEPT !.failures = n,
              !.last_failure_time = t,
              !.cached_response = IF Truthy(cached_response)
                                  THEN cached_response ELSE @,
              !.state = IF n >= failure_threshold THEN "open" ELSE @]

\* can_execute returns a value and may change the breaker: the result is
\* the pair [cb, ret].
can_execute_stays_open(b, t) ==
    IF b.state = "closed" THEN [cb |-> b, ret |-> TRUE]
    ELSE IF b.state = "open"
         THEN IF t - b.last_failure_time >= recovery_timeout
              THEN [cb |-> b, ret |-> TRUE]
              ELSE [cb |-> b, ret |-> FALSE]
         ELSE [cb |-> b, ret |-> TRUE]

can_execute(b, t) ==
    IF b.state = "closed" THEN [cb |-> b, ret |-> TRUE]
    ELSE IF b.state = "open"
         THEN IF t - b.last_failure_time >= recovery_timeout
              THEN [cb |-> [b EXCEPT !.state = "half-open"], ret |-> TRUE]
              ELSE [cb |-> b, ret |-> FALSE]
         ELSE [cb |-> b, ret |-> TRUE]

VARIABLES
    circuit_breakers,  \* dict patient_uid -> CircuitBreaker (aura.py:68)
    modules,           \* aura_modules collection: patient_uid -> status
    requests,          \* in-flight identify_person handlers
    now,               \* time.time()
    hist,              \* per device: record_failure calls since the last
                       \* record_success and the time of the last one
    ev                 \* what the last step called and answered

cbVars == <<circuit_breakers, modules, requests, now, hist, ev>>

VARIABLES
    registered,             \* BackendClient.registered
    heartbeat_failures,     \* BackendClient._heartbeat_failures
    is_reconnecting,        \* BackendClient._is_reconnecting
    on_reconnect_callback,  \* TRUE when a reconnect callback is set
    bpc,                    \* where the device's main/heartbeat task stands
    reg,                    \* the register() call in progress
    net,                    \* the device's network, as _get_local_ip sees it
    cancelled,              \* stop_heartbeat has cancelled the task
    bev                     \* what the last step of the coordinator did

bcVars == <<registered, heartbeat_failures, is_reconnecting,
            on_reconnect_callback, bpc, reg, net, cancelled, bev>>

VARIABLES
    le,                     \* the log_event() call in progress
    lev                     \* what the last step of log_event did

leVars == <<le, lev>>

VARIABLES
    connected_clients,      \* ws_server._connected_clients
    client_last_activity,   \* ws_server._client_last_activity
    session_auth,           \* ws_server._session_auth
    shutting_down,          \* ws_server._shutting_down
    active_video_streams,   \* ws_server._active_video_streams
    sess,                   \* each session's handler and connection
    stream,                 \* each video stream's handler and response
    gclock,                 \* time.time() on the device
    sd,                     \* where main()'s shutdown sequence stands
    rp,                     \* where a pass of the reaper stands
    listener,               \* the listening socket of the server
    gev                     \* what the last step of the gateway did

gwVars == <<connected_clients, client_last_activity, session_auth,
            shutting_down, active_video_streams, sess, stream, gclock, sd,
            rp, listener, gev>>

VARIABLES
    cam,                    \* the CameraService object and its capture thread
    cev                     \* what the last step of the camera service did

camVars == <<cam, cev>>

VARIABLES
    mic,                    \* the ContinuousMicrophone object, its threads
                            \* and the part of main() that owns it
    mclock,                 \* time.time() as the microphone threads read it
    mev                     \* what the last step of the microphone did

micVars == <<mic, mclock, mev>>

VARIABLES
    fev                     \* what the last call of the module's
                            \* identify_person was given and returned

VARIABLES
    connections,            \* _connections of the remote service (routes/ws.py)
    connections_lock,       \* the handler holding _connections_lock, or 0
    conn,                   \* where each websocket_endpoint handler stands
    uev                     \* what the last step of the user registry did

urVars == <<connections, connections_lock, conn, uev>>

restVars == <<fev, urVars>>

vars == <<cbVars, bcVars, leVars, gwVars, camVars, micVars, restVars>>

notCB == <<bcVars, leVars, gwVars, camVars, micVars, restVars>>
notBC == <<cbVars, leVars, gwVars, camVars, micVars, restVars>>
notLE == <<cbVars, bcVars, gwVars, camVars, micVars, restVars>>
notGW == <<cbVars, bcVars, leVars, camVars, micVars, restVars>>
notCam == <<cbVars, bcVars, leVars, gwVars, micVars, restVars>>
notMic == <<cbVars, bcVars, leVars, gwVars, camVars, restVars>>
notFR == <<cbVars, bcVars, leVars, gwVars, camVars, micVars, urVars>>
notUR == <<cbVars, bcVars, leVars, gwVars, camVars, micVars, fev>>

IdleReq == [pc |-> "idle", uid |-> "p1", contacted |-> FALSE]

Put(f, k, v) == [x \in DOMAIN f \cup {k} |-> IF x = k THEN v ELSE f[x]]

\* one entry of ev
Event(op, uid, ret, status, body, from_cache, contacted, cb, before) ==
    [op |-> op, uid |-> uid, ret |-> ret, status |-> status, body |-> body,
     from_cache |-> from_cache, contacted |-> contacted, cb |-> cb,
     before |-> before, at |-> now]

\* a call on the breaker; body is the fallback handed to record_failure
CallEv(op, uid, ret, before, after) ==
    Event(op, uid, ret, 0, NoPayload, FALSE, FALSE, after, before)

FailEv(uid, payload, before, after) ==
    Event("record_failure", uid, FALSE, 0, payload, FALSE, FALSE, after, before)

RespondEv(uid, status, body, from_cache, contacted, cb) ==
    Event("respond", uid, FALSE, status, body, from_cache, contacted, cb, cb)

\* get_circuit_breaker (aura.py:72-75): created lazily, kept for ever
get_circuit_breaker(cbs, uid) ==
    IF uid \in DOMAIN cbs THEN cbs
    ELSE [u \in DOMAIN cbs \cup {uid} |-> IF u = uid THEN NewBreaker ELSE cbs[u]]

NoHist == [streak |-> 0, failed_at |-> NoTime, trials |-> 0]

CBInit ==
    /\ circuit_breakers = [u \in {} |-> NewBreaker]
    /\ modules = [u \in {} |-> "online"]
    /\ requests = [r \in ReqIds |-> IdleReq]
    /\ now = 0
    /\ hist = [u \in Devices |-> NoHist]
    /\ ev = <<>>


\* ghost bookkeeping of the calls made on a device's breaker
\* streak: record_failure calls since the last record_success;
\* failed_at: time of the last record_failure;
\* trials: times can_execute returned true on a breaker that was not
\*         closed, since the last record_success/record_failure (0, 1, many)
HistFailure(h) == [streak |-> h.streak + 1, failed_at |-> now, trials |-> 0]
HistSuccess(h) == [h EXCEPT !.streak = 0, !.trials = 0]
HistAdmit(h, b, ret) ==
    IF ret /\ b.state # "closed"
    THEN [h EXCEPT !.trials = IF @ < 2 THEN @ + 1 ELSE @]
    ELSE h

(***************************************************************************)
(* identify_person (aura.py:479-578).  The handler runs on the event loop: *)
(* it yields at `await get_module`, `await client.post` and `await         *)
(* upsert_module`; each action below is the code between two awaits.       *)
(***************************************************************************)

\* aura.py:486-499: the breaker is consulted; a refusal is answered at once
IdentifyBegin(r, u) ==
    /\ requests[r].pc = "idle"
    /\ LET cbs == get_circuit_breaker(circuit_breakers, u)
           b == cbs[u]
           res == can_execute(b, now)
           call == CallEv("can_execute", u, res.ret, b, res.cb)
       IN /\ circuit_breakers' = Put(cbs, u, res.cb)
          /\ hist' = [hist EXCEPT ![u] = HistAdmit(@, b, res.ret)]
          /\ IF res.ret
             THEN /\ requests' = [requests EXCEPT ![r] =
                                     [pc |-> "get_module", uid |-> u,
                                      contacted |-> FALSE]]
                  /\ ev' = <<call>>
             ELSE /\ requests' = requests
                  /\ ev' = <<call,
                             IF Truthy(res.cb.cached_response)
                             THEN RespondEv(u, 200, res.cb.cached_response,
                                            TRUE, FALSE, res.cb)
                             ELSE RespondEv(u, 503, NoPayload,
                                            FALSE, FALSE, res.cb)>>
    /\ UNCHANGED <<modules, now, notCB>>

\* aura.py:501-534: the registry lookup, then the request is sent
IdentifyGetModule(r) ==
    LET u == requests[r].uid IN
    /\ requests[r].pc = "get_module"
    /\ IF u \notin DOMAIN modules
       THEN /\ requests' = [requests EXCEPT ![r] = IdleReq]
            /\ ev' = <<RespondEv(u, 404, NoPayload, FALSE, FALSE,
                                 circuit_breakers[u])>>
       ELSE IF modules[u] # "online"
       THEN /\ requests' = [requests EXCEPT ![r] = IdleReq]
            /\ ev' = <<RespondEv(u, 503, NoPayload, FALSE, FALSE,
                                 circuit_breakers[u])>>
       ELSE /\ requests' = [requests EXCEPT ![r].pc = "post",
                                            ![r].contacted = TRUE]
            /\ ev' = <<>>
    /\ UNCHANGED <<circuit_breakers, modules, now, hist, notCB>>

PostOutcomes == {"ok", "bad_json", "non200", "connect_error", "timeout",
                 "exception"}
DeviceErrorStatus == {404, 500}

\* aura.py:534-578: what the handler does once client.post has finished
IdentifyPostReturn(r, outcome, status) ==
    LET u == requests[r].uid
        b == circuit_breakers[u]
        ok == record_success(b)
        fail(b0, p) == record_failure(b0, p, now)
    IN
    /\ requests[r].pc = "post"
    /\ outcome \in PostOutcomes
    /\ outcome # "ok" => b.failures < MaxFailures
    /\ outcome = "non200" <=> status \in DeviceErrorStatus
    /\ CASE outcome = "ok" ->
            /\ circuit_breakers' = [circuit_breakers EXCEPT ![u] = ok]
            /\ hist' = [hist EXCEPT ![u] = HistSuccess(@)]
            /\ requests' = [requests EXCEPT ![r] = IdleReq]
            /\ ev' = <<CallEv("record_success", u, FALSE, b, ok),
                       RespondEv(u, 200, "result", FALSE, TRUE, ok)>>
         [] outcome = "bad_json" ->
            \* record_success has run when response.json() raises; the
            \* generic handler then records a failure
            LET b2 == fail(ok, PayloadError) IN
            /\ circuit_breakers' = [circuit_breakers EXCEPT ![u] = b2]
            /\ hist' = [hist EXCEPT ![u] = HistFailure(HistSuccess(@))]
            /\ requests' = [requests EXCEPT ![r] = IdleReq]
            /\ ev' = <<CallEv("record_success", u, FALSE, b, ok),
                       FailEv(u, PayloadError, ok, b2),
                       RespondEv(u, 500, NoPayload, FALSE, TRUE, b2)>>
         [] outcome = "non200" ->
            LET b2 == fail(b, NoPayload) IN
            /\ circuit_breakers' = [circuit_breakers EXCEPT ![u] = b2]
            /\ hist' = [hist EXCEPT ![u] = HistFailure(@)]
            /\ requests' = [requests EXCEPT ![r] = IdleReq]
            /\ ev' = <<FailEv(u, NoPayload, b, b2),
                       RespondEv(u, status, NoPayload, FALSE, TRUE, b2)>>
         [] outcome = "connect_error" ->
            LET b2 == fail(b, PayloadConnect) IN
            /\ circuit_breakers' = [circuit_breakers EXCEPT ![u] = b2]
            /\ hist' = [hist EXCEPT ![u] = HistFailure(@)]
            /\ requests' = [requests EXCEPT ![r].pc = "upsert"]
            /\ ev' = <<FailEv(u, PayloadConnect, b, b2)>>
         [] outcome = "timeout" ->
            LET b2 == fail(b, PayloadTimeout) IN
            /\ circuit_breakers' = [circuit_breakers EXCEPT ![u] = b2]
            /\ hist' = [hist EXCEPT ![u] = HistFailure(@)]
            /\ requests' = [requests EXCEPT ![r] = IdleReq]
            /\ ev' = <<FailEv(u, PayloadTimeout, b, b2),
                       RespondEv(u, 504, NoPayload, FALSE, TRUE, b2)>>
         [] outcome = "exception" ->
            LET b2 == fail(b, PayloadError) IN
            /\ circuit_breakers' = [circuit_breakers EXCEPT ![u] = b2]
            /\ hist' = [hist EXCEPT ![u] = HistFailure(@)]
            /\ requests' = [requests EXCEPT ![r] = IdleReq]
            /\ ev' = <<FailEv(u, PayloadError, b, b2),
                       RespondEv(u, 500, NoPayload, FALSE, TRUE, b2)>>
    /\ UNCHANGED <<modules, now, notCB>>

\* aura.py:553-562: after a connect error the module is upserted again
IdentifyUpsert(r) ==
    LET u == requests[r].uid IN
    /\ requests[r].pc = "upsert"
    /\ modules' = Put(modules, u, "online")
    /\ requests' = [requests EXCEPT ![r] = IdleReq]
    /\ ev' = <<RespondEv(u, 502, NoPayload, FALSE, TRUE, circuit_breakers[u])>>
    /\ UNCHANGED <<circuit_breakers, now, hist, notCB>>

(***************************************************************************)
(* The registry as the other endpoints change it                           *)
(***************************************************************************)
\* register_module / register_module_from_device -> upsert_module
RegisterModule(u) ==
    /\ modules' = Put(modules, u, "online")
    /\ ev' = <<>>
    /\ UNCHANGED <<circuit_breakers, requests, now, hist, notCB>>

\* cleanup_stale_modules -> mark_stale_modules_offline; which modules are
\* stale depends on last_seen, which this registry abstracts
MarkStaleOffline(stale) ==
    /\ stale # {}
    /\ stale \subseteq {u \in DOMAIN modules : modules[u] = "online"}
    /\ modules' = [u \in DOMAIN modules |->
                     IF u \in stale THEN "offline" ELSE modules[u]]
    /\ ev' = <<>>
    /\ UNCHANGED <<circuit_breakers, requests, now, hist, notCB>>

\* delete_module
DeleteModule(u) ==
    /\ u \in DOMAIN modules
    /\ modules' = [x \in DOMAIN modules \ {u} |-> modules[x]]
    /\ ev' = <<>>
    /\ UNCHANGED <<circuit_breakers, requests, now, hist, notCB>>

\* time passes
Tick ==
    /\ now + TickStep <= MaxTime
    /\ now' = now + TickStep
    /\ ev' = <<>>
    /\ UNCHANGED <<circuit_breakers, modules, requests, hist, notCB>>

NextCB ==
    \/ \E r \in ReqIds, u \in Devices : IdentifyBegin(r, u)
    \/ \E r \in ReqIds : IdentifyGetModule(r)
    \/ \E r \in ReqIds, o \in PostOutcomes, s \in DeviceErrorStatus \cup {200} :
          IdentifyPostReturn(r, o, s)
    \/ \E r \in ReqIds : IdentifyUpsert(r)
    \/ \E u \in Devices : RegisterModule(u)
    \/ \E s \in SUBSET Devices : MarkStaleOffline(s)
    \/ \E u \in Devices : DeleteModule(u)
    \/ Tick

(***************************************************************************)
(* Circuit breaker: properties                                             *)
(***************************************************************************)
Calls(op) == {i \in DOMAIN ev : ev[i].op = op}

\* C1: once failure_threshold record_failure calls have been made with no
\* record_success between them, a can_execute() call made less than
\* recovery_timeout seconds after the last recorded failure returns false.
C1_RefusesWhileTimeoutRuns ==
    \A i \in Calls("can_execute") :
        LET h == hist[ev[i].uid] IN
        (h.streak >= failure_threshold /\ ev[i].at - h.failed_at < recovery_timeout)
            => ev[i].ret = FALSE

\* a breaker that opened, was tried after the timeout, failed the trial and
\* now refuses again
C1_Witness ==
    \E i \in Calls("can_execute") :
        /\ hist[ev[i].uid].streak > failure_threshold
        /\ ev[i].at - hist[ev[i].uid].failed_at < recovery_timeout
        /\ ev[i].ret = FALSE

\* C2: after the timeout can_execute() admits exactly one trial call: having
\* returned true on an open breaker it does not return true again until
\* record_success or record_failure has been recorded.
C2_ExactlyOneTrial ==
    \A u \in Devices : hist[u].trials <= 1

\* C3: in every reachable state, state = "open" implies
\* now - last_failure_time < recovery_timeout.
C3_OpenOnlyWithinTimeout ==
    \A u \in DOMAIN circuit_breakers :
        circuit_breakers[u].state = "open"
            => now - circuit_breakers[u].last_failure_time < recovery_timeout

\* C3 (amended): whenever can_execute() returns, the breaker it was called
\* on is open only if now - last_failure_time < recovery_timeout; the state
\* is re-evaluated by can_execute() alone, not by the passing of time.
C3_OpenAfterCanExecuteWithinTimeout ==
    \A i \in Calls("can_execute") :
        ev[i].cb.state = "open"
            => ev[i].at - ev[i].cb.last_failure_time < recovery_timeout

\* can_execute() called on a breaker left open past its timeout
C3_Witness ==
    \E i \in Calls("can_execute") :
        /\ ev[i].before.state = "open"
        /\ ev[i].at - ev[i].before.last_failure_time >= recovery_timeout
        /\ ev[i].cb.state = "half-open"

\* C4: record_success() called in any breaker state leaves failures = 0,
\* state = closed and the cached response cleared.
C4_RecordSuccessResets ==
    \A i \in Calls("record_success") :
        /\ ev[i].cb.failures = 0
        /\ ev[i].cb.state = "closed"
        /\ ev[i].cb.cached_response = NoPayload

\* record_success() on an open breaker that holds a fallback
C4_Witness ==
    \E i \in Calls("record_success") :
        /\ ev[i].before.state = "open"
        /\ ev[i].before.failures > failure_threshold
        /\ ev[i].before.cached_response # NoPayload

\* record_success() on a half-open and on a closed breaker
C4_WitnessHalfOpen ==
    \E i \in Calls("record_success") :
        ev[i].before.state = "half-open" /\ ev[i].before.cached_response # NoPayload

\* C5: record_failure stores a supplied fallback payload on the breaker;
\* whenever can_execute() refuses a proxied request the proxy answers from
\* the stored payload, marked from_cache, if there is one and with a 503
\* otherwise, in both cases without contacting the device.
C5_RefusalAnsweredFromCache ==
    /\ \A i \in Calls("record_failure") :
           ev[i].body # NoPayload => ev[i].cb.cached_response = ev[i].body
    /\ \A i \in Calls("can_execute") :
           ev[i].ret = FALSE =>
               /\ i + 1 \in Calls("respond")
               /\ ev[i + 1].uid = ev[i].uid
               /\ ~ev[i + 1].contacted
               /\ LET stored == circuit_breakers[ev[i].uid].cached_response IN
                  IF stored # NoPayload
                  THEN ev[i + 1].from_cache /\ ev[i + 1].body = stored
                  ELSE ev[i + 1].status = 503 /\ ~ev[i + 1].from_cache

\* a refusal answered from the fallback of an earlier connect error
C5_Witness ==
    \E i \in Calls("respond") :
        /\ ev[i].from_cache
        /\ ev[i].body = PayloadConnect
        /\ i - 1 \in Calls("can_execute")

\* a refusal with nothing cached
C5_Witness503 ==
    \E i \in Calls("can_execute") :
        ev[i].ret = FALSE /\ ev[i + 1].status = 503

(***************************************************************************)
(* BackendClient (auramodule/app/services/backend_client.py)               *)
(***************************************************************************)
MaxHbFailures == 5          \* no failed heartbeat is modelled past this count

max_heartbeat_failures == 3 \* self._max_heartbeat_failures
max_retries == 10           \* settings.backend_max_retries
base_delay == 5             \* settings.backend_retry_delay
max_delay == 60             \* register(): max_delay = 60.0

\* what one POST to the backend can come to
Outcomes == {"200", "200_bad_json", "401", "404", "500",
             "connect_error", "timeout", "exception"}

Networks == {"192.168.1.10", "192.168.1.20", "down"}

\* discovery._get_local_ip: the address of the outgoing interface, or the
\* loopback address when it cannot be determined
get_local_ip(n) == IF n = "down" THEN "127.0.0.1" ELSE n

RECURSIVE Pow2(_)
Pow2(n) == IF n = 0 THEN 1 ELSE 2 * Pow2(n - 1)

Min(a, b) == IF a < b THEN a ELSE b

retry_delay_uncapped(attempt) == base_delay * Pow2(attempt)

\* register(): delay = min(base_delay * (2 ** attempt), max_delay)
retry_delay(attempt) == Min(base_delay * Pow2(attempt), max_delay)

\* register(): how one attempt ends.  200 logs response.json() before it
\* sets registered, so a 200 whose body is not JSON ends in the generic
\* handler like any other error.
register_attempt_retries_404(outcome) ==
    IF outcome = "200" THEN "success"
    ELSE IF outcome = "401" THEN "terminal"
    ELSE "retry"

register_attempt(outcome) ==
    IF outcome = "200" THEN "success"
    ELSE IF outcome \in {"401", "404"} THEN "terminal"
    ELSE "retry"

\* _send_heartbeat(): only a 200 is a success; a 404 also clears registered
send_heartbeat(outcome) ==
    [ok |-> outcome = "200", clears_registered |-> outcome = "404"]

\* _heartbeat_loop, success branch (lines 161-173): the flag is cleared,
\* then the callback, if any, is awaited
on_success_callback_first(reconnecting, has_callback) ==
    IF reconnecting
    THEN [is_reconnecting |-> has_callback,
          bpc |-> IF has_callback THEN "callback" ELSE "hb_sleep"]
    ELSE [is_reconnecting |-> FALSE, bpc |-> "hb_sleep"]

on_success(reconnecting, has_callback) ==
    IF reconnecting
    THEN [is_reconnecting |-> FALSE,
          bpc |-> IF has_callback THEN "callback" ELSE "hb_sleep"]
    ELSE [is_reconnecting |-> FALSE, bpc |-> "hb_sleep"]

\* _heartbeat_loop, lines 170-173 and 188-189: an exception of the callback
\* is logged and the loop goes on
after_callback_unguarded(raised) == IF raised THEN "stopped" ELSE "hb_sleep"

after_callback(raised) == "hb_sleep"

\* _handle_backend_disconnect, lines 226-227
disconnect_is_skipped(reconnecting) == reconnecting

BEvent(op, outcome, ret, ip, attempt, delay) ==
    [op |-> op, outcome |-> outcome, ret |-> ret, ip |-> ip,
     attempt |-> attempt, delay |-> delay]

PostEv(ip, attempt) == BEvent("register_post", "", FALSE, ip, attempt, 0)
ResponseEv(outcome, attempt) ==
    BEvent("register_response", outcome, FALSE, "", attempt, 0)
ReturnEv(ret) == BEvent("register_return", "", ret, "", 0, 0)
SleepEv(delay) == BEvent("sleep", "", FALSE, "", 0, delay)
HeartbeatEv == BEvent("heartbeat", "", FALSE, "", 0, 0)
HbResultEv(outcome, ok) == BEvent("heartbeat_result", outcome, ok, "", 0, 0)
DisconnectEv(skipped) == BEvent("disconnect", "", skipped, "", 0, 0)
CallbackEv == BEvent("callback", "", FALSE, "", 0, 0)

NoReg == [attempt |-> 0, caller |-> "none", ip |-> ""]

BCInit ==
    /\ registered = FALSE
    /\ heartbeat_failures = 0
    /\ is_reconnecting = FALSE
    /\ on_reconnect_callback = FALSE
    /\ bpc = "boot"
    /\ reg = NoReg
    /\ net = "192.168.1.10"
    /\ cancelled = FALSE
    /\ bev = <<>>

\* no log_event() call is in progress
NoLogEvent == [pc |-> "idle", attempt |-> 0, sent |-> 0, event_type |-> ""]

LEInit ==
    /\ le = NoLogEvent
    /\ lev = <<>>

(***************************************************************************)
(* The streaming gateway (ws_server.py)                                    *)
(***************************************************************************)
MaxSessions == 2       \* WebSocket sessions that ever connect
MaxStreams == 2        \* video streams that ever connect

Sessions == 1..MaxSessions
Streams == 1..MaxStreams

CONNECTION_TIMEOUT == 300
min_token_len == 10
max_no_frame_wait == 100

\* JSON values as far as the handler tells them apart: the type, the
\* length of a string or the value of a number, and a label
Absent == [t |-> "absent", n |-> 0, id |-> ""]
JNull == [t |-> "null", n |-> 0, id |-> ""]
JStr(id, n) == [t |-> "str", n |-> n, id |-> id]
JInt(k) == [t |-> "int", n |-> k, id |-> ""]

\* _session_auth[ws] = {}
NoAuth == [set |-> FALSE, patient_uid |-> Absent, auth_token |-> Absent]

NoSession == [pc |-> "none", open |-> FALSE, authed |-> FALSE, bound |-> Absent]
NoStream == [pc |-> "none", eof_sent |-> FALSE, no_frame_count |-> 0,
             gone |-> FALSE]
NoTables == [clients |-> {}, activity |-> [s \in {} |-> 0],
             auth |-> [s \in {} |-> NoAuth]]

GWInit ==
    /\ connected_clients = {}
    /\ client_last_activity = [s \in {} |-> 0]
    /\ session_auth = [s \in {} |-> NoAuth]
    /\ shutting_down = FALSE
    /\ active_video_streams = {}
    /\ sess = [s \in Sessions |-> NoSession]
    /\ stream = [v \in Streams |-> NoStream]
    /\ gclock = 0
    /\ sd = [pc |-> "running", cur |-> 0, ws_left |-> {}, vs_left |-> {}]
    /\ rp = [pc |-> "idle", cur |-> 0, left |-> {}, scanned |-> {},
             prev |-> NoTables]
    /\ listener = "listening"
    /\ gev = <<>>

(***************************************************************************)
(* CameraService (services/camera.py)                                      *)
(***************************************************************************)
max_consecutive_errors == 10
MaxCamErrors == 12     \* no failed read is modelled past this error count

\* CameraService.__init__; started, gave_up and streak are history: a start
\* has succeeded, the capture loop has ended on read errors, and how many
\* reads in a row have failed in the capture loop since it was started
NewCamera ==
    [running |-> FALSE, thread |-> "none", cap |-> "none", frame |-> "none",
     error_count |-> 0, started |-> FALSE, gave_up |-> FALSE, streak |-> 0]

CamInit ==
    /\ cam = NewCamera
    /\ cev = <<>>

(***************************************************************************)
(* ContinuousMicrophone (services/microphone.py)                           *)
(***************************************************************************)
SUMMARIZATION_INTERVAL == 600
mic_max_consecutive_errors == 10
chunks_per_segment == 10
audio_queue_maxsize == 0    \* queue.Queue(): a maxsize of 0 is no limit
transcripts_cap == 100      \* the rolling buffer is cut when longer than this
transcripts_kept == 50      \* and this many of its newest entries are kept

MicTick == 600              \* the clock is sampled every MicTick seconds
MaxMicTime == 1200          \* up to MaxMicTime
MaxTranscripts == 2         \* transcripts produced in one run of SpecMic
MaxChunks == 21             \* chunks held in the raw-audio buffer in SpecMic
MaxQueued == 1              \* chunks waiting in the transcription queue
MaxAppends == 102           \* transcripts produced in one run of SpecMicCap
MaxCapChunks == 1020        \* chunks recorded in one run of SpecMicCap

\* ContinuousMicrophone.__init__ as main() calls it, with on_summarize and
\* the running event loop.  thread and tthread are where the recording and
\* the transcription thread stand, mode which loop the recording thread
\* runs, segment_buffer and batch the locals segment_buffer and
\* transcripts_to_summarize, main how far main() is with this object;
\* produced counts the transcripts made so far (the k-th transcript is the
\* text k) and delivered is history: every batch handed to the callback
NewMicrophone ==
    [running |-> FALSE, thread |-> "none", mode |-> "none",
     tthread |-> "none", stream |-> "none", on_summarize |-> TRUE,
     whisper_loaded |-> FALSE, error_count |-> 0, transcripts |-> <<>>,
     audio_buffer |-> <<>>, audio_queue |-> <<>>, segment_buffer |-> 0,
     last_summarize_time |-> 0, batch |-> <<>>, produced |-> 0,
     main |-> "constructed", delivered |-> <<>>]

MicInit ==
    /\ mic = NewMicrophone
    /\ mclock = 0
    /\ mev = <<>>

(***************************************************************************)
(* identify_person of the module (services/face_recognition.py)            *)
(***************************************************************************)
face_confidence_threshold == 40     \* 0.4, scores are in hundredths

FRInit == fev = <<>>

(***************************************************************************)
(* the user connection registry of the remote service (routes/ws.py)       *)
(***************************************************************************)
MaxConns == 3               \* connections one user opens in a run
Conns == 1..MaxConns

NoEntry == 0                \* _connections.get(user_uid) is None
NoConn == [pc |-> "none", open |-> FALSE, registered |-> FALSE]

\* line 10-11: an empty registry, a free lock (the holder is the head of the
\* sequence, the tasks waiting for the lock follow in their order of arrival)
URInit ==
    /\ connections = NoEntry
    /\ connections_lock = <<>>
    /\ conn = [c \in Conns |-> NoConn]
    /\ uev = <<>>

Init ==
    /\ CBInit /\ BCInit /\ LEInit /\ GWInit /\ CamInit /\ MicInit /\ FRInit
    /\ URInit

SpecCB == Init /\ [][NextCB]_vars

\* set_reconnect_callback
SetReconnectCallback ==
    /\ ~on_reconnect_callback
    /\ bpc # "stopped"
    /\ on_reconnect_callback' = TRUE
    /\ bev' = <<>>
    /\ UNCHANGED <<registered, heartbeat_failures, is_reconnecting, bpc, reg,
                   net, cancelled, notBC>>

\* main.py:344-350: the composition root registers with the local address
Boot ==
    /\ bpc = "boot"
    /\ bpc' = "reg_post"
    /\ reg' = [attempt |-> 0, caller |-> "main", ip |-> get_local_ip(net)]
    /\ bev' = <<PostEv(get_local_ip(net), 0)>>
    /\ UNCHANGED <<registered, heartbeat_failures, is_reconnecting,
                   on_reconnect_callback, net, cancelled, notBC>>

\* where the caller of register() goes on: main starts the heartbeat only
\* after a successful registration (main.py:352-357); the heartbeat loop
\* goes back to sleep whatever the result (lines 238-243, 155-157)
after_register(caller, ret) ==
    IF caller = "main" THEN (IF ret THEN "hb_sleep" ELSE "no_heartbeat")
    ELSE "hb_sleep"

\* register(), lines 89-132: the answer to one attempt
RegisterResponse(outcome) ==
    LET kind == register_attempt(outcome)
        resp == ResponseEv(outcome, reg.attempt)
    IN
    /\ bpc = "reg_post"
    /\ CASE kind = "success" ->
            /\ registered' = TRUE
            /\ heartbeat_failures' = 0
            /\ bpc' = after_register(reg.caller, TRUE)
            /\ reg' = NoReg
            /\ bev' = <<resp, ReturnEv(TRUE)>>
         [] kind = "terminal" ->
            /\ bpc' = after_register(reg.caller, FALSE)
            /\ reg' = NoReg
            /\ bev' = <<resp, ReturnEv(FALSE)>>
            /\ UNCHANGED <<registered, heartbeat_failures>>
         [] kind = "retry" /\ reg.attempt < max_retries - 1 ->
            /\ bpc' = "reg_sleep"
            /\ bev' = <<resp, SleepEv(retry_delay(reg.attempt))>>
            /\ UNCHANGED <<registered, heartbeat_failures, reg>>
         [] kind = "retry" /\ reg.attempt >= max_retries - 1 ->
            /\ bpc' = after_register(reg.caller, FALSE)
            /\ reg' = NoReg
            /\ bev' = <<resp, ReturnEv(FALSE)>>
            /\ UNCHANGED <<registered, heartbeat_failures>>
    /\ UNCHANGED <<is_reconnecting, on_reconnect_callback, net, cancelled,
                   notBC>>

\* register(), line 129 and the next turn of the for loop
RegisterWake ==
    /\ bpc = "reg_sleep"
    /\ bpc' = "reg_post"
    /\ reg' = [reg EXCEPT !.attempt = @ + 1]
    /\ bev' = <<PostEv(reg.ip, reg.attempt + 1)>>
    /\ UNCHANGED <<registered, heartbeat_failures, is_reconnecting,
                   on_reconnect_callback, net, cancelled, notBC>>

\* _heartbeat_loop, lines 157-159: the sleep ends and a heartbeat is posted
HeartbeatWake ==
    /\ bpc = "hb_sleep"
    /\ bpc' = "hb_post"
    /\ bev' = <<HeartbeatEv>>
    /\ UNCHANGED <<registered, heartbeat_failures, is_reconnecting,
                   on_reconnect_callback, reg, net, cancelled, notBC>>

\* _send_heartbeat and _heartbeat_loop lines 161-183, with
\* _handle_backend_disconnect up to its first request (lines 225-238)
HeartbeatResponse(outcome) ==
    LET hb == send_heartbeat(outcome)
        res == HbResultEv(outcome, hb.ok)
    IN
    /\ bpc = "hb_post"
    /\ IF hb.ok
       THEN LET s == on_success(is_reconnecting, on_reconnect_callback) IN
            /\ heartbeat_failures' = 0
            /\ is_reconnecting' = s.is_reconnecting
            /\ bpc' = s.bpc
            /\ bev' = IF s.bpc = "callback" THEN <<res, CallbackEv>> ELSE <<res>>
            /\ UNCHANGED <<registered, reg>>
       ELSE /\ heartbeat_failures < MaxHbFailures
            /\ heartbeat_failures' = heartbeat_failures + 1
            /\ IF heartbeat_failures + 1 >= max_heartbeat_failures
               THEN IF disconnect_is_skipped(is_reconnecting)
                    THEN /\ registered' = (registered /\ ~hb.clears_registered)
                         /\ bpc' = "hb_sleep"
                         /\ bev' = <<res, DisconnectEv(TRUE)>>
                         /\ UNCHANGED <<is_reconnecting, reg>>
                    ELSE /\ is_reconnecting' = TRUE
                         /\ registered' = FALSE
                         /\ reg' = [attempt |-> 0, caller |-> "disconnect",
                                    ip |-> get_local_ip(net)]
                         /\ bpc' = "reg_post"
                         /\ bev' = <<res, DisconnectEv(FALSE),
                                     PostEv(get_local_ip(net), 0)>>
               ELSE /\ registered' = (registered /\ ~hb.clears_registered)
                    /\ bpc' = "hb_sleep"
                    /\ bev' = <<res>>
                    /\ UNCHANGED <<is_reconnecting, reg>>
    /\ UNCHANGED <<on_reconnect_callback, net, cancelled, notBC>>

\* the awaited reconnect callback returns or raises
CallbackReturn(raised) ==
    /\ bpc = "callback"
    /\ bpc' = after_callback(raised)
    /\ bev' = <<>>
    /\ UNCHANGED <<registered, heartbeat_failures, is_reconnecting,
                   on_reconnect_callback, reg, net, cancelled, notBC>>

\* the points at which the heartbeat task is suspended
InHeartbeatTask ==
    \/ bpc \in {"hb_sleep", "hb_post", "callback"}
    \/ bpc \in {"reg_post", "reg_sleep"} /\ reg.caller = "disconnect"

\* stop_heartbeat (lines 141-152): the task is cancelled; CancelledError is
\* raised at the await the task is suspended in, passes every
\* `except Exception` and ends the loop (lines 185-187)
StopHeartbeat ==
    /\ InHeartbeatTask
    /\ bpc' = "stopped"
    /\ cancelled' = TRUE
    /\ reg' = NoReg
    /\ bev' = <<>>
    /\ UNCHANGED <<registered, heartbeat_failures, is_reconnecting,
                   on_reconnect_callback, net, notBC>>

\* the device moves to another network, or loses it
NetworkChange(n) ==
    /\ n # net
    /\ bpc # "stopped"
    /\ net' = n
    /\ bev' = <<>>
    /\ UNCHANGED <<registered, heartbeat_failures, is_reconnecting,
                   on_reconnect_callback, bpc, reg, cancelled, notBC>>

NextBC ==
    \/ SetReconnectCallback
    \/ Boot
    \/ \E o \in Outcomes : RegisterResponse(o)
    \/ RegisterWake
    \/ HeartbeatWake
    \/ \E o \in Outcomes : HeartbeatResponse(o)
    \/ \E raised \in BOOLEAN : CallbackReturn(raised)
    \/ StopHeartbeat
    \/ \E n \in Networks : NetworkChange(n)

SpecBC == Init /\ [][NextBC]_vars

(***************************************************************************)
(* Connectivity coordinator: properties                                    *)
(***************************************************************************)
BCalls(op) == {i \in DOMAIN bev : bev[i].op = op}

\* C6: whenever the coordinator leaves the reconnecting state (the flag goes
\* from true to false) it is in the registered state.
C6_LeavesReconnectingRegistered ==
    [][(is_reconnecting /\ ~is_reconnecting') => registered']_vars

\* C7: whenever a failed heartbeat brings the consecutive-failure counter to
\* the threshold, disconnect handling takes effect: reconnecting becomes
\* true, registered becomes false and a re-registration with the current
\* local address is attempted.
C7_ThresholdStartsDisconnectHandling ==
    [][(heartbeat_failures # max_heartbeat_failures
          /\ heartbeat_failures' = max_heartbeat_failures)
       => /\ is_reconnecting'
          /\ ~registered'
          /\ bpc' = "reg_post"
          /\ reg' = [attempt |-> 0, caller |-> "disconnect",
                     ip |-> get_local_ip(net)]]_vars

\* C8: on a successful heartbeat in the reconnecting state the reconnect
\* callback runs while the reconnecting flag is still true.
C8_CallbackRunsWhileReconnecting ==
    bpc = "callback" => is_reconnecting

HeartbeatSucceeds ==
    /\ bpc = "hb_post"
    /\ 1 \in DOMAIN bev'
    /\ bev'[1].op = "heartbeat_result"
    /\ bev'[1].ret

\* C8 (amended): on a successful heartbeat in the reconnecting state the
\* reconnecting flag is cleared first and the reconnect callback, if one is
\* set, is invoked after it: the callback runs while reconnecting is false.
C8_CallbackRunsAfterFlagCleared ==
    /\ [](bpc = "callback" => ~is_reconnecting)
    /\ [][(HeartbeatSucceeds /\ is_reconnecting)
            => /\ ~is_reconnecting'
               /\ on_reconnect_callback => bpc' = "callback"]_vars

\* the callback is running after a recovery from the reconnecting state
C8_Witness ==
    /\ bpc = "callback"
    /\ 2 \in BCalls("callback")
    /\ bev[1].op = "heartbeat_result" /\ bev[1].ret
    /\ registered

\* C9: the heartbeat loop keeps running through failed heartbeats, failed
\* re-registrations and exceptions of the callback; it ends only when its
\* task is cancelled, and once cancelled (also in the middle of a sleep) it
\* sends nothing more.
C9_LoopEndsOnlyOnCancel ==
    /\ [](bpc = "stopped" <=> cancelled)
    /\ [][cancelled' =>
            /\ bpc' = "stopped"
            /\ BCalls("heartbeat")' = {}
            /\ BCalls("register_post")' = {}]_vars
    /\ [][(bpc = "hb_sleep" /\ bpc' = "hb_post") => ~cancelled]_vars

\* the loop has lived through failed heartbeats and a failed
\* re-registration and was then cancelled
C9_Witness ==
    /\ bpc = "stopped"
    /\ cancelled
    /\ is_reconnecting
    /\ ~registered
    /\ heartbeat_failures > max_heartbeat_failures

\* C10: a 401 or 404 answer to a registration request makes register()
\* return false at once: no further attempt, no backoff sleep, and
\* registered is not set.
C10_TerminalStatusEndsRegister ==
    \A i \in BCalls("register_response") :
        bev[i].outcome \in {"401", "404"} =>
            /\ Len(bev) = i + 1
            /\ bev[i + 1].op = "register_return"
            /\ bev[i + 1].ret = FALSE
            /\ bpc \notin {"reg_post", "reg_sleep"}
            /\ reg = NoReg
            /\ ~registered

\* the first registration request of a re-registration is answered 404
C10_Witness ==
    \E i \in BCalls("register_response") :
        /\ bev[i].outcome = "404"
        /\ bev[i].attempt = 0
        /\ bev[i + 1].ret = FALSE
        /\ is_reconnecting

\* C11: register() stops at the first 200: when the first k attempts fail
\* transiently and the next one is answered 200 it returns true after
\* exactly k+1 requests, with registered = true and the failure counter 0;
\* when every attempt fails transiently it returns false after at most
\* max_retries requests.
C11_StopsAtFirst200 ==
    \A i \in BCalls("register_response") :
        /\ bev[i].attempt < max_retries
        /\ bev[i].outcome \in {"200", "200_bad_json"} =>
              /\ Len(bev) = i + 1
              /\ bev[i + 1].op = "register_return"
              /\ bev[i + 1].ret
              /\ registered
              /\ heartbeat_failures = 0
        /\ (bev[i].outcome \in {"500", "connect_error", "timeout"}
              /\ bev[i].attempt = max_retries - 1) =>
              /\ bev[i + 1].op = "register_return"
              /\ ~bev[i + 1].ret

\* C12: the delay register() waits after failed attempt n is
\* min(base_delay * 2^n, 60): 5, 10, 20, 40, 60, 60, ... for base_delay = 5.
ExpectedDelays == <<5, 10, 20, 40, 60, 60, 60, 60, 60>>

C12_BackoffDelays ==
    \A i \in BCalls("sleep") :
        /\ i - 1 \in BCalls("register_response")
        /\ bev[i - 1].attempt + 1 \in DOMAIN ExpectedDelays
        /\ bev[i].delay = ExpectedDelays[bev[i - 1].attempt + 1]

\* the wait after the sixth failed attempt, the second one at the cap
C12_Witness ==
    \E i \in BCalls("sleep") :
        bev[i - 1].attempt = 5 /\ bev[i].delay = 60

(***************************************************************************)
(* BackendClient.log_event (backend_client.py:245-290)                     *)
(***************************************************************************)
le_max_retries == 3
le_base_delay == 1
le_max_delay == 10

EventTypes == {"face_detected", "transcript", "sos", "status"}

LogOutcomes == {"200", "401", "403", "404", "500", "503",
                "connect_error", "timeout", "exception"}

\* log_event(): how one attempt ends (lines 264-282)
log_event_attempt_retries_403(outcome) ==
    IF outcome = "200" THEN "true"
    ELSE IF outcome = "401" THEN "false"
    ELSE IF outcome \in {"403", "500", "503"} THEN "retry"
    ELSE IF outcome \in {"connect_error", "timeout"} THEN "retry"
    ELSE "false"

log_event_attempt(outcome) ==
    IF outcome = "200" THEN "true"
    ELSE IF outcome \in {"401", "403"} THEN "false"
    ELSE IF outcome \in {"500", "503"} THEN "retry"
    ELSE IF outcome \in {"connect_error", "timeout"} THEN "retry"
    ELSE "false"

\* log_event(): delay = min(base_delay * (2 ** attempt), max_delay)
log_event_delay(attempt) == Min(le_base_delay * Pow2(attempt), le_max_delay)

LEvent(op, outcome, ret, attempt, delay) ==
    [op |-> op, outcome |-> outcome, ret |-> ret, attempt |-> attempt,
     delay |-> delay, event_type |-> le.event_type]

LCalls(op) == {i \in DOMAIN lev : lev[i].op = op}

\* a caller logs an event: the first request is posted
LogEventCall(t) ==
    /\ le.pc = "idle"
    /\ le' = [pc |-> "post", attempt |-> 0, sent |-> 1, event_type |-> t]
    /\ lev' = <<[LEvent("post", "", FALSE, 0, 0) EXCEPT !.event_type = t]>>
    /\ UNCHANGED notLE

\* lines 264-290: the answer to one attempt
LogEventResponse(outcome) ==
    LET kind == log_event_attempt(outcome)
        resp == LEvent("response", outcome, FALSE, le.attempt, 0)
    IN
    /\ le.pc = "post"
    /\ IF kind = "retry" /\ le.attempt < le_max_retries - 1
       THEN /\ le' = [le EXCEPT !.pc = "sleep"]
            /\ lev' = <<resp, LEvent("sleep", "", FALSE, le.attempt,
                                     log_event_delay(le.attempt))>>
       ELSE /\ le' = NoLogEvent
            /\ lev' = <<resp, LEvent("return", "", kind = "true",
                                     le.attempt, 0)>>
    /\ UNCHANGED notLE

\* line 287 and the next turn of the for loop
LogEventWake ==
    /\ le.pc = "sleep"
    /\ le' = [le EXCEPT !.pc = "post", !.attempt = @ + 1, !.sent = @ + 1]
    /\ lev' = <<LEvent("post", "", FALSE, le.attempt + 1, 0)>>
    /\ UNCHANGED notLE

NextLE ==
    \/ \E t \in EventTypes : LogEventCall(t)
    \/ \E o \in LogOutcomes : LogEventResponse(o)
    \/ LogEventWake

SpecLE == Init /\ [][NextLE]_vars

\* C13: log_event() sends at most 3 requests, returns false at once on a
\* 401 or 403, retries after a 5xx, a connect error or a timeout, and always
\* ends by returning a boolean.
C13_LogEventBounded ==
    /\ le.sent <= 3
    /\ \A i \in LCalls("post") : lev[i].attempt < 3
    /\ \A i \in LCalls("response") :
          /\ Len(lev) = i + 1
          /\ lev[i + 1].op \in {"return", "sleep"}
          /\ lev[i + 1].op = "return" => lev[i + 1].ret \in BOOLEAN /\ le.pc = "idle"
          /\ lev[i].outcome = "200" => lev[i + 1].op = "return" /\ lev[i + 1].ret
          /\ lev[i].outcome \in {"401", "403"} =>
                lev[i + 1].op = "return" /\ ~lev[i + 1].ret
          /\ (lev[i].outcome \in {"500", "503", "connect_error", "timeout"}
                /\ lev[i].attempt < 2) =>
                lev[i + 1].op = "sleep" /\ le.pc = "sleep"
          /\ (lev[i].outcome \in {"500", "503", "connect_error", "timeout"}
                /\ lev[i].attempt = 2) =>
                lev[i + 1].op = "return" /\ ~lev[i + 1].ret

\* the third request fails too and log_event gives up
C13_Witness ==
    \E i \in LCalls("response") :
        /\ lev[i].attempt = 2
        /\ lev[i].outcome = "timeout"
        /\ lev[i + 1].op = "return" /\ ~lev[i + 1].ret

(***************************************************************************)
(* The streaming gateway: sessions (ws_server.py:43-299)                   *)
(***************************************************************************)
\* truthiness, len() and slicing of a JSON value in Python
py_truthy(v) ==
    CASE v.t = "str" -> v.n > 0
      [] v.t = "int" -> v.n # 0
      [] OTHER -> FALSE

has_len(v) == v.t = "str"

sliceable(v) == v.t = "str"

\* msg.get(key, "")
get(v) == IF v = Absent THEN JStr("", 0) ELSE v

\* a text frame: whether it parses, and the fields the handler reads
Msg(json, command, auth_token, patient_uid) ==
    [json |-> json, command |-> command, auth_token |-> auth_token,
     patient_uid |-> patient_uid]

NoMsg == Msg("none", Absent, Absent, Absent)

Command(name) == Msg("object", JStr(name, 4), Absent, Absent)

TokenValues == {Absent, JStr("", 0), JStr("short", 9), JStr("tokenA", 12),
                JInt(12345)}

PatientValues == {Absent, JStr("", 0), JStr("p1", 8), JStr("p2", 8), JInt(7)}

ConnectMessages ==
    {Msg("object", JStr("connect", 7), t, p) :
        t \in TokenValues, p \in PatientValues}

MalformedMessages ==
    {Msg("invalid", Absent, Absent, Absent),
     Msg("non_object", Absent, Absent, Absent),
     Msg("object", Absent, Absent, Absent),
     Msg("object", JStr("", 0), Absent, Absent),
     Msg("object", JNull, Absent, Absent),
     Msg("object", JInt(5), Absent, Absent),
     Command("bogus")}

Messages ==
    MalformedMessages \cup ConnectMessages
        \cup {Command("identify"), Command("status"), Command("ping")}

\* the messages of a well-behaved client
PlainMessages ==
    {Command("ping"),
     Msg("object", JStr("connect", 7), JStr("tokenA", 12), JStr("p1", 8))}

\* camera_service.get_frame() as an identify finds it
Frames == {"frame", "none"}

\* only an identify reads the frame
FramesFor(m) == IF m.command.id = "identify" THEN Frames ELSE {"frame"}

\* _validate_message
validate_message(m) ==
    IF m.json = "non_object" THEN "Message must be a JSON object"
    ELSE IF ~py_truthy(get(m.command)) THEN "Missing 'command' field"
    ELSE IF m.command.t # "str" THEN "'command' must be a string"
    ELSE IF m.command.id = "connect" /\ m.auth_token = Absent
        THEN "Missing 'auth_token' for connect command"
    ELSE IF m.command.id = "connect" /\ m.patient_uid = Absent
        THEN "Missing 'patient_uid' for connect command"
    ELSE "ok"

\* what handling one message does: the reply, the session's credentials
\* afterwards, whether an exception left the receive loop, whether the
\* handler now awaits identify_person, whether the camera frame was read
Outcome(reply, auth, raised, awaits, frame_used) ==
    [reply |-> reply, auth |-> auth, raised |-> raised, awaits |-> awaits,
     frame_used |-> frame_used]

Reply(reply, auth) == Outcome(reply, auth, FALSE, FALSE, FALSE)

\* lines 137-163
connect_outcome(m, auth) ==
    LET token == get(m.auth_token)
        patient == get(m.patient_uid)
        stored == [set |-> TRUE, patient_uid |-> patient, auth_token |-> token]
    IN
    IF ~py_truthy(token) THEN Reply("connected:error:invalid_token", auth)
    ELSE IF ~has_len(token) THEN Outcome("none", auth, TRUE, FALSE, FALSE)
    ELSE IF token.n < min_token_len
        THEN Reply("connected:error:invalid_token", auth)
    ELSE IF ~py_truthy(patient)
        THEN Reply("connected:error:missing_patient_uid", auth)
    ELSE IF ~sliceable(patient) THEN Outcome("none", stored, TRUE, FALSE, FALSE)
    ELSE Reply("connected:ok", stored)

identify_outcome_skips_auth(auth, frame) ==
    IF frame = "none"
    THEN Outcome("identify_result:no_frame", auth, FALSE, FALSE, TRUE)
    ELSE Outcome("none", auth, FALSE, TRUE, TRUE)

\* lines 165-182: up to the call of identify_person
identify_outcome(auth, frame) ==
    IF ~auth.set THEN Reply("identify_result:not_authenticated", auth)
    ELSE IF frame = "none"
    THEN Outcome("identify_result:no_frame", auth, FALSE, FALSE, TRUE)
    ELSE Outcome("none", auth, FALSE, TRUE, TRUE)

\* lines 118-276: one text frame, the server not shutting down
handle_message(m, auth, frame) ==
    IF m.json = "invalid" THEN Reply("error:invalid_json", auth)
    ELSE IF validate_message(m) # "ok" THEN Reply("error:validation_error", auth)
    ELSE IF m.command.id = "connect" THEN connect_outcome(m, auth)
    ELSE IF m.command.id = "identify" THEN identify_outcome(auth, frame)
    ELSE IF m.command.id = "status" THEN Reply("status", auth)
    ELSE IF m.command.id = "ping" THEN Reply("pong", auth)
    ELSE Reply("error:unknown_command", auth)

\* one entry of gev
GEvent(op, s, m, reply, dropped, frame_used, pipeline_used, auth, authed) ==
    [op |-> op, s |-> s, m |-> m, reply |-> reply, dropped |-> dropped,
     frame_used |-> frame_used, pipeline_used |-> pipeline_used,
     auth_before |-> auth, authed_before |-> authed, flag |-> shutting_down,
     streams |-> active_video_streams]

GNote(op, s) == GEvent(op, s, NoMsg, "none", FALSE, FALSE, FALSE, NoAuth, FALSE)

Restrict(f, D) == [x \in D |-> f[x]]

\* the three tables without the sessions S (the handler's finally block,
\* the reaper's removal)
Forget(S, activity) ==
    /\ connected_clients' = connected_clients \ S
    /\ client_last_activity' = Restrict(activity, DOMAIN activity \ S)
    /\ session_auth' = Restrict(session_auth, DOMAIN session_auth \ S)

\* _ws_handler up to the receive loop: a client opens a session
WsAccept(s) ==
    /\ listener = "listening"
    /\ sess[s].pc = "none"
    /\ connected_clients' = connected_clients \cup {s}
    /\ client_last_activity' = Put(client_last_activity, s, gclock)
    /\ session_auth' = Put(session_auth, s, NoAuth)
    /\ sess' = [sess EXCEPT ![s].pc = "recv", ![s].open = TRUE]
    /\ gev' = <<GNote("accept", s)>>
    /\ UNCHANGED <<shutting_down, active_video_streams, stream, gclock, sd,
                   rp, listener, notGW>>

\* one turn of the receive loop for a text frame
WsMessage(s, m, frame) ==
    LET activity == Put(client_last_activity, s, gclock)
        auth == IF s \in DOMAIN session_auth THEN session_auth[s] ELSE NoAuth
        h == IF shutting_down
             THEN Reply("shutdown", auth)
             ELSE handle_message(m, auth, frame)
        ends == shutting_down \/ h.raised
    IN
    /\ sess[s].pc = "recv"
    /\ sess[s].open
    /\ IF ends
       THEN /\ Forget({s}, activity)
            /\ sess' = [sess EXCEPT ![s].pc = "done", ![s].open = FALSE]
       ELSE /\ connected_clients' = connected_clients
            /\ client_last_activity' = activity
            /\ session_auth' = IF h.auth = auth THEN session_auth
                               ELSE Put(session_auth, s, h.auth)
            /\ sess' = [sess EXCEPT
                 ![s].pc = IF h.awaits THEN "identify" ELSE "recv",
                 ![s].authed = @ \/ h.reply = "connected:ok",
                 ![s].bound = IF ~sess[s].authed /\ h.reply = "connected:ok"
                              THEN h.auth.patient_uid ELSE @]
    /\ gev' = <<GEvent("message", s, m, h.reply, ends, h.frame_used, h.awaits,
                       auth, sess[s].authed)>>
    /\ UNCHANGED <<shutting_down, active_video_streams, stream, gclock, sd,
                   rp, listener, notGW>>

\* lines 179-189: identify_person returns or raises
IdentifyReturn(s, ok) ==
    LET reply == IF ok THEN "identify_result:faces"
                 ELSE "identify_result:identification_failed"
    IN
    /\ sess[s].pc = "identify"
    /\ IF sess[s].open
       THEN /\ sess' = [sess EXCEPT ![s].pc = "recv"]
            /\ gev' = <<GEvent("identify_return", s, NoMsg, reply, FALSE,
                               FALSE, FALSE, NoAuth, sess[s].authed)>>
            /\ UNCHANGED <<connected_clients, client_last_activity,
                           session_auth>>
       ELSE /\ Forget({s}, client_last_activity)
            /\ sess' = [sess EXCEPT ![s].pc = "done"]
            /\ gev' = <<GEvent("identify_return", s, NoMsg, "none", TRUE,
                               FALSE, FALSE, NoAuth, sess[s].authed)>>
    /\ UNCHANGED <<shutting_down, active_video_streams, stream, gclock, sd,
                   rp, listener, notGW>>

\* lines 278-299: the client closes, or the connection fails
WsPeerClose(s) ==
    /\ sess[s].pc = "recv"
    /\ sess[s].open
    /\ Forget({s}, client_last_activity)
    /\ sess' = [sess EXCEPT ![s].pc = "done", ![s].open = FALSE]
    /\ gev' = <<GNote("peer_close", s)>>
    /\ UNCHANGED <<shutting_down, active_video_streams, stream, gclock, sd,
                   rp, listener, notGW>>

\* lines 287-299: the receive loop ends because the server closed the session
WsHandlerExit(s) ==
    /\ sess[s].pc = "recv"
    /\ ~sess[s].open
    /\ Forget({s}, client_last_activity)
    /\ sess' = [sess EXCEPT ![s].pc = "done"]
    /\ gev' = <<GNote("handler_exit", s)>>
    /\ UNCHANGED <<shutting_down, active_video_streams, stream, gclock, sd,
                   rp, listener, notGW>>

\* time passes on the device
GAdvance(t) ==
    /\ t > gclock
    /\ gclock' = t
    /\ gev' = <<GNote("advance", 0)>>
    /\ UNCHANGED <<connected_clients, client_last_activity, session_auth,
                   shutting_down, active_video_streams, sess, stream, sd, rp,
                   listener, notGW>>

(***************************************************************************)
(* Video streams (ws_server.py:510-625)                                    *)
(***************************************************************************)
\* the handler is still in its loop and no EOF has been written
StreamOpen(v) ==
    stream[v].pc \in {"sleep", "write"} /\ ~stream[v].eof_sent

StreamExit_keeps_stream(v, str) ==
    /\ UNCHANGED active_video_streams
    /\ stream' = [str EXCEPT ![v].pc = IF str[v].eof_sent THEN "done" ELSE "eof"]

\* the finally block: leave the set, write EOF unless already sent
StreamExit(v, str) ==
    /\ active_video_streams' = active_video_streams \ {v}
    /\ stream' = [str EXCEPT ![v].pc = IF str[v].eof_sent THEN "done" ELSE "eof"]

\* what a step of a video handler did to stream v
VNote(kind, v) ==
    GEvent("video_step", v, NoMsg, kind, FALSE, FALSE, FALSE, NoAuth, FALSE)

loop_continues_whatever_flag(flag) == TRUE

\* line 543: while not _shutting_down
loop_continues(flag) == ~flag

gives_up_at_once(count) == count >= 1

\* line 552: if no_frame_count >= max_no_frame_wait
gives_up(count) == count >= max_no_frame_wait

\* lines 510-543: a client opens the video feed
VideoAccept(v) ==
    /\ listener = "listening"
    /\ stream[v].pc = "none"
    /\ IF loop_continues(shutting_down)
       THEN /\ stream' = [stream EXCEPT ![v].pc = "sleep"]
            /\ active_video_streams' = active_video_streams \cup {v}
       ELSE /\ stream' = [stream EXCEPT ![v].pc = "eof"]
            /\ UNCHANGED active_video_streams
    /\ gev' = <<GNote("video_accept", v)>>
    /\ UNCHANGED <<connected_clients, client_last_activity, session_auth,
                   shutting_down, sess, gclock, sd, rp, listener, notGW>>

\* lines 543-625: the handler resumes from the await it is suspended in
VideoStep(v, o) ==
    /\ \/ /\ stream[v].pc = "sleep"
          /\ ~loop_continues(shutting_down)
          /\ o = "frame"
          /\ StreamExit(v, stream)
          /\ gev' = <<VNote("exit_shutdown", v)>>
       \/ /\ stream[v].pc = "sleep"
          /\ loop_continues(shutting_down)
          /\ o = "none"
          /\ IF gives_up(stream[v].no_frame_count + 1)
             THEN /\ StreamExit(v, [stream EXCEPT ![v].no_frame_count = @ + 1])
                  /\ gev' = <<VNote("exit_no_frame", v)>>
             ELSE /\ stream' = [stream EXCEPT ![v].no_frame_count = @ + 1]
                  /\ UNCHANGED active_video_streams
                  /\ gev' = <<VNote("no_frame", v)>>
       \/ /\ stream[v].pc = "sleep"
          /\ loop_continues(shutting_down)
          /\ o = "frame"
          /\ stream' = [stream EXCEPT ![v].pc = "write",
                                      ![v].no_frame_count = 0]
          /\ UNCHANGED active_video_streams
          /\ gev' = <<VNote("write_start", v)>>
       \/ /\ stream[v].pc = "write"
          /\ o = "frame"
          /\ stream' = [stream EXCEPT ![v].pc = "sleep"]
          /\ UNCHANGED active_video_streams
          /\ gev' = <<VNote("write_done", v)>>
       \/ /\ stream[v].pc = "write"
          /\ o = "reset"
          /\ StreamExit(v, [stream EXCEPT ![v].gone = TRUE])
          /\ gev' = <<VNote("disconnect", v)>>
       \/ /\ stream[v].pc = "eof"
          /\ o = "frame"
          /\ stream' = [stream EXCEPT ![v].pc = "done", ![v].eof_sent = TRUE]
          /\ UNCHANGED active_video_streams
          /\ gev' = <<VNote("eof_done", v)>>
    /\ UNCHANGED <<connected_clients, client_last_activity, session_auth,
                   shutting_down, sess, gclock, sd, rp, listener, notGW>>

(***************************************************************************)
(* Shutdown (main.py:408-422, ws_server.py:689-717)                        *)
(***************************************************************************)
\* lines 707-717 and main.py:416-422, from the snapshot of the video streams
\* or from the return of one write_eof to the next await or to the release
\* of the listener
CloseStreams(left, str) ==
    LET V == {v \in left : ~str[v].eof_sent} IN
    IF V = {}
    THEN /\ sd' = [pc |-> "released", cur |-> 0, ws_left |-> {},
                   vs_left |-> {}]
         /\ active_video_streams' = {}
         /\ listener' = "released"
    ELSE /\ \E v \in V :
              sd' = [pc |-> "closing_vs", cur |-> v, ws_left |-> {},
                     vs_left |-> left \ {v}]
         /\ UNCHANGED <<active_video_streams, listener>>

\* lines 699-706, from the snapshot of the sessions or from the return of
\* one ws.close() to the next await
CloseSessions(left) ==
    IF left = {}
    THEN /\ connected_clients' = {}
         /\ client_last_activity' = [s \in {} |-> 0]
         /\ session_auth' = [s \in {} |-> NoAuth]
         /\ CloseStreams(active_video_streams, stream)
    ELSE /\ \E s \in left :
              sd' = [pc |-> "closing_ws", cur |-> s, ws_left |-> left \ {s},
                     vs_left |-> {}]
         /\ UNCHANGED <<connected_clients, client_last_activity, session_auth,
                        active_video_streams, listener>>

\* main.py:408-414, ws_server.py:689-696: the stop signal arrives
ShutdownBegin ==
    /\ sd.pc = "running"
    /\ shutting_down' = TRUE
    /\ sd' = [sd EXCEPT !.pc = "sleep"]
    /\ gev' = <<GNote("shutdown_begin", 0)>>
    /\ UNCHANGED <<connected_clients, client_last_activity, session_auth,
                   active_video_streams, sess, stream, gclock, rp, listener,
                   notGW>>

\* asyncio.sleep(2) returns
ShutdownWake ==
    /\ sd.pc = "sleep"
    /\ CloseSessions(connected_clients)
    /\ gev' = <<GNote("shutdown_wake", 0)>>
    /\ UNCHANGED <<shutting_down, sess, stream, gclock, rp, notGW>>

\* ws.close() of one session returns
ShutdownWsClosed ==
    /\ sd.pc = "closing_ws"
    /\ sess' = [sess EXCEPT ![sd.cur].open = FALSE]
    /\ CloseSessions(sd.ws_left)
    /\ gev' = <<GNote("shutdown_ws_closed", sd.cur)>>
    /\ UNCHANGED <<shutting_down, stream, gclock, rp, notGW>>

\* write_eof() of one video stream returns
ShutdownVsClosed ==
    LET str == [stream EXCEPT ![sd.cur].eof_sent = TRUE] IN
    /\ sd.pc = "closing_vs"
    /\ stream' = str
    /\ CloseStreams(sd.vs_left, str)
    /\ gev' = <<GNote("shutdown_vs_closed", sd.cur)>>
    /\ UNCHANGED <<connected_clients, client_last_activity, session_auth,
                   shutting_down, sess, gclock, rp, notGW>>

(***************************************************************************)
(* The reaper (ws_server.py:63-80)                                         *)
(***************************************************************************)
is_stale_inclusive(idle) == idle >= CONNECTION_TIMEOUT

\* line 69
is_stale(idle) == idle > CONNECTION_TIMEOUT

Tables == [clients |-> connected_clients, activity |-> client_last_activity,
           auth |-> session_auth]

\* lines 64-72: the scan, up to the first ws.close()
ReaperScan ==
    LET last(s) == IF s \in DOMAIN client_last_activity
                   THEN client_last_activity[s] ELSE gclock
        stale == {s \in connected_clients : is_stale(gclock - last(s))}
    IN
    /\ rp.pc = "idle"
    /\ IF stale = {}
       THEN rp' = [pc |-> "idle", cur |-> 0, left |-> {}, scanned |-> {},
                   prev |-> Tables]
       ELSE \E s \in stale :
              rp' = [pc |-> "closing", cur |-> s, left |-> stale \ {s},
                     scanned |-> stale, prev |-> Tables]
    /\ gev' = <<GNote("reaper_scan", 0)>>
    /\ UNCHANGED <<connected_clients, client_last_activity, session_auth,
                   shutting_down, active_video_streams, sess, stream, gclock,
                   sd, listener, notGW>>

\* lines 73-80: ws.close() of one stale session returns
ReaperClosed ==
    /\ rp.pc = "closing"
    /\ sess' = [sess EXCEPT ![rp.cur].open = FALSE]
    /\ Forget({rp.cur}, client_last_activity)
    /\ IF rp.left = {}
       THEN rp' = [rp EXCEPT !.pc = "idle", !.prev = Tables]
       ELSE \E s \in rp.left :
              rp' = [rp EXCEPT !.cur = s, !.left = @ \ {s}, !.prev = Tables]
    /\ gev' = <<GNote("reaper_close", rp.cur)>>
    /\ UNCHANGED <<shutting_down, active_video_streams, stream, gclock, sd,
                   listener, notGW>>

(***************************************************************************)
(* Specifications of the gateway                                           *)
(***************************************************************************)
\* the session protocol, every kind of message
NextWS ==
    \/ \E s \in Sessions : WsAccept(s)
    \/ \E s \in Sessions, m \in Messages :
            \E f \in FramesFor(m) : WsMessage(s, m, f)
    \/ \E s \in Sessions, ok \in BOOLEAN : IdentifyReturn(s, ok)
    \/ \E s \in Sessions : WsPeerClose(s)
    \/ ShutdownBegin

SpecWS == Init /\ [][NextWS]_vars

GWInstants == {301, 602}

\* the gateway as main() runs it: sessions, video streams, shutdown
NextGW ==
    \/ \E s \in Sessions : WsAccept(s)
    \/ \E s \in Sessions, m \in PlainMessages : WsMessage(s, m, "frame")
    \/ \E s \in Sessions : WsPeerClose(s)
    \/ \E s \in Sessions : WsHandlerExit(s)
    \/ \E t \in GWInstants : GAdvance(t)
    \/ \E v \in Streams : VideoAccept(v)
    \/ \E v \in Streams, o \in {"frame", "reset"} : VideoStep(v, o)
    \/ ShutdownBegin
    \/ ShutdownWake
    \/ ShutdownWsClosed
    \/ ShutdownVsClosed

SpecGW == Init /\ [][NextGW]_vars

\* the server's own steps are taken when they can be; clients and the stop
\* signal are free
SpecGWFair ==
    /\ SpecGW
    /\ WF_vars(\E s \in Sessions : WsHandlerExit(s))
    /\ WF_vars(\E t \in GWInstants : GAdvance(t))
    /\ WF_vars(ShutdownWake \/ ShutdownWsClosed \/ ShutdownVsClosed)

ReaperInstants == {1, 2, 301, 302}

\* passes of the reaper over sessions that come, talk and go
NextReaper ==
    \/ \E s \in Sessions : WsAccept(s)
    \/ \E s \in Sessions : WsMessage(s, Command("ping"), "frame")
    \/ \E s \in Sessions : WsPeerClose(s)
    \/ \E s \in Sessions : WsHandlerExit(s)
    \/ \E t \in ReaperInstants : GAdvance(t)
    \/ ReaperScan
    \/ ReaperClosed

SpecReaper == Init /\ [][NextReaper]_vars

(***************************************************************************)
(* Claims about the gateway                                                *)
(***************************************************************************)
GCalls(op) == {i \in DOMAIN gev : gev[i].op = op}

IsConnect(m) == m.json = "object" /\ m.command = JStr("connect", 7)

\* C14: on a session with no successful connect, every identify is
\* answered with identify_result / not_authenticated, and neither the camera
\* frame nor the recognition pipeline is used.
C14_UnauthenticatedIdentifyRefused ==
    \A i \in GCalls("message") :
        (gev[i].m = Command("identify") /\ ~gev[i].authed_before) =>
            /\ gev[i].reply = "identify_result:not_authenticated"
            /\ ~gev[i].frame_used
            /\ ~gev[i].pipeline_used

\* C14, amended: on a session with no successful connect an identify uses
\* neither the camera frame nor the recognition pipeline; it is answered with
\* identify_result / not_authenticated and the session goes on, unless the
\* server is shutting down: then it is answered with the shutdown notice and
\* the session ends.
C14_UnauthenticatedIdentifyRefusedUnlessShutdown ==
    \A i \in GCalls("message") :
        (gev[i].m = Command("identify") /\ ~gev[i].authed_before) =>
            /\ ~gev[i].frame_used
            /\ ~gev[i].pipeline_used
            /\ IF gev[i].flag
               THEN /\ gev[i].reply = "shutdown"
                    /\ gev[i].dropped
               ELSE /\ gev[i].reply = "identify_result:not_authenticated"
                    /\ ~gev[i].dropped
                    /\ sess[gev[i].s].pc = "recv"

\* an identify is refused on a session whose only connect was rejected
C14_Witness ==
    \E i \in GCalls("message") :
        /\ gev[i].m = Command("identify")
        /\ ~gev[i].authed_before
        /\ ~gev[i].flag
        /\ gev[i].reply = "identify_result:not_authenticated"

\* the shutdown notice answers an identify on such a session
C14_WitnessShutdown ==
    \E i \in GCalls("message") :
        /\ gev[i].m = Command("identify")
        /\ ~gev[i].authed_before
        /\ gev[i].flag
        /\ gev[i].reply = "shutdown"

\* C15: once a session is authenticated, the patient identifier bound to it
\* never changes for the rest of the session.
C15_BoundPatientNeverChanges ==
    \A s \in Sessions :
        (sess[s].authed /\ s \in DOMAIN session_auth) =>
            session_auth[s].patient_uid = sess[s].bound

\* C16: a connect whose auth_token is empty or shorter than 10 characters,
\* or whose patient_uid is empty, gets a structured authentication error;
\* the connection stays open and the stored credentials are unchanged.
C16_BadCredentialsRejected ==
    \A i \in GCalls("message") :
        (/\ IsConnect(gev[i].m)
         /\ gev[i].m.auth_token # Absent
         /\ gev[i].m.patient_uid # Absent
         /\ \/ gev[i].m.auth_token.t = "str" /\ gev[i].m.auth_token.n < 10
            \/ gev[i].m.patient_uid = JStr("", 0)) =>
            /\ gev[i].reply \in {"connected:error:invalid_token",
                                 "connected:error:missing_patient_uid"}
            /\ ~gev[i].dropped
            /\ sess[gev[i].s].open
            /\ gev[i].s \in DOMAIN session_auth
            /\ session_auth[gev[i].s] = gev[i].auth_before

\* C17: every malformed or unknown message (invalid JSON, JSON that is not
\* an object, a missing or non-string command, an unknown command, a connect
\* whose fields are missing or of the wrong type) gets a structured error
\* reply and never ends the connection: the session takes the next message.
C17_MalformedAnsweredWithError ==
    \A i \in GCalls("message") :
        (\/ gev[i].m \in MalformedMessages
         \/ /\ IsConnect(gev[i].m)
            /\ \/ gev[i].m.auth_token.t # "str"
               \/ gev[i].m.patient_uid.t # "str") =>
            /\ gev[i].reply \in {"error:invalid_json",
                                 "error:validation_error",
                                 "error:unknown_command",
                                 "connected:error:invalid_token",
                                 "connected:error:missing_patient_uid"}
            /\ ~gev[i].dropped
            /\ sess[gev[i].s].open
            /\ sess[gev[i].s].pc = "recv"

\* C18: while the gateway runs (no shutdown has begun), a session idle for
\* longer than the timeout is eventually closed and removed from the tables:
\* it does not stay open and idle for ever.
Stale(s) ==
    /\ sess[s].open
    /\ s \in DOMAIN client_last_activity
    /\ gclock - client_last_activity[s] > CONNECTION_TIMEOUT

C18_IdleSessionsEventuallyReaped ==
    \A s \in Sessions :
        Stale(s) ~> \/ ~sess[s].open /\ s \notin connected_clients
                    \/ ~Stale(s)
                    \/ shutting_down

\* C19: one pass of the reaper closes and removes exactly the sessions whose
\* last activity is more than the timeout in the past when it scans the
\* table: idle for timeout + 1 is closed, idle for timeout - 1 or for
\* exactly the timeout is retained, and what it retains it leaves unchanged.
C19_ReaperClosesExactlyStale ==
    /\ \A i \in GCalls("reaper_scan") :
          /\ rp.scanned =
                {s \in connected_clients :
                    gclock - client_last_activity[s] >= CONNECTION_TIMEOUT + 1}
          /\ \A s \in connected_clients :
                /\ gclock - client_last_activity[s] = CONNECTION_TIMEOUT + 1
                      => s \in rp.scanned
                /\ gclock - client_last_activity[s]
                      \in {CONNECTION_TIMEOUT - 1, CONNECTION_TIMEOUT}
                      => s \notin rp.scanned
    /\ \A i \in GCalls("reaper_close") :
          /\ gev[i].s \in rp.scanned
          /\ ~sess[gev[i].s].open
          /\ connected_clients = rp.prev.clients \ {gev[i].s}
          /\ DOMAIN client_last_activity = DOMAIN rp.prev.activity \ {gev[i].s}
          /\ DOMAIN session_auth = DOMAIN rp.prev.auth \ {gev[i].s}
          /\ \A s \in DOMAIN client_last_activity :
                client_last_activity[s] = rp.prev.activity[s]
          /\ \A s \in DOMAIN session_auth :
                session_auth[s] = rp.prev.auth[s]
          /\ rp.pc = "idle" =>
                \A s \in rp.scanned :
                    /\ ~sess[s].open
                    /\ s \notin connected_clients
                    /\ s \notin DOMAIN session_auth

\* a pass has closed the session idle for 301 s and kept the one idle for 299 s
C19_Witness ==
    \E i \in GCalls("reaper_close") :
        /\ rp.pc = "idle"
        /\ rp.scanned = {gev[i].s}
        /\ gev[i].s \in DOMAIN rp.prev.activity
        /\ gclock - rp.prev.activity[gev[i].s] = CONNECTION_TIMEOUT + 1
        /\ \E s \in connected_clients :
              /\ gclock - client_last_activity[s] = CONNECTION_TIMEOUT - 1
              /\ sess[s].open

\* C20: during shutdown the listener is released only after the flag is set
\* and every open session and every open video stream has been closed: none
\* is still open when the listener is released.
C20_NothingOpenAtRelease ==
    \A i \in GCalls("shutdown_wake") \cup GCalls("shutdown_ws_closed")
                \cup GCalls("shutdown_vs_closed") :
        listener = "released" =>
            /\ shutting_down
            /\ \A s \in Sessions : ~sess[s].open
            /\ \A v \in Streams : ~StreamOpen(v)

\* C21: after the shutting-down flag has been set no new session is started:
\* no connection accepted after that point is added to the session tables.
C21_NoSessionAfterFlag ==
    \A i \in GCalls("accept") :
        gev[i].flag =>
            /\ gev[i].s \notin connected_clients
            /\ gev[i].s \notin DOMAIN client_last_activity
            /\ gev[i].s \notin DOMAIN session_auth

(***************************************************************************)
(* Specifications of the video streams                                     *)
(***************************************************************************)
\* video streams against the shutdown sequence, the camera delivering frames
NextVS ==
    \/ \E s \in Sessions : WsAccept(s)
    \/ \E s \in Sessions : WsHandlerExit(s)
    \/ \E v \in Streams : VideoAccept(v)
    \/ \E v \in Streams, o \in {"frame", "reset"} : VideoStep(v, o)
    \/ ShutdownBegin
    \/ ShutdownWake
    \/ ShutdownWsClosed
    \/ ShutdownVsClosed

SpecVS == Init /\ [][NextVS]_vars

\* one video handler against a camera that may have no frame, and shutdown
NextVH ==
    \/ VideoAccept(1)
    \/ \E o \in {"frame", "none", "reset"} : VideoStep(1, o)
    \/ ShutdownBegin
    \/ ShutdownWake
    \/ ShutdownVsClosed

SpecVH == Init /\ [][NextVH]_vars

VSteps(kind) == {i \in DOMAIN gev : gev[i].op = "video_step" /\ gev[i].reply = kind}

\* C22: in every interleaving of a video stream handler with shutdown, no
\* frame write is started on a stream after end-of-stream has been written
\* on that stream.
C22_NoWriteAfterEof ==
    \A i \in VSteps("write_start") :
        /\ ~stream[gev[i].s].eof_sent
        /\ ~(sd.pc = "closing_vs" /\ sd.cur = gev[i].s)

\* shutdown has written EOF on a stream whose handler is still in its loop
C22_Witness ==
    \E i \in GCalls("shutdown_vs_closed") :
        /\ stream[gev[i].s].eof_sent
        /\ stream[gev[i].s].pc \in {"sleep", "write"}

\* C23: when a client disconnects in the middle of a video stream (no
\* end-of-stream has been written on it), the stream is removed from the
\* active-stream set (the set shrinks by exactly that one stream, other
\* streams stay) and no further frame write is attempted on that connection.
C23_DisconnectShrinksSetByOne ==
    /\ \A i \in VSteps("disconnect") :
          ~stream[gev[i].s].eof_sent =>
              /\ gev[i].s \in gev[i].streams
              /\ active_video_streams = gev[i].streams \ {gev[i].s}
              /\ stream[gev[i].s].pc = "eof"
    /\ \A i \in VSteps("write_start") : ~stream[gev[i].s].gone
    /\ \A v \in Streams : stream[v].gone => stream[v].pc \in {"eof", "done"}

\* one of two active streams is dropped by its client, the other stays
C23_Witness ==
    \E i \in VSteps("disconnect") :
        /\ gev[i].streams = {1, 2}
        /\ active_video_streams = {1, 2} \ {gev[i].s}
        /\ stream[gev[i].s].gone
        /\ ~stream[gev[i].s].eof_sent

BackendCounts == {3, 2, 1}

OpenOutcomes == {"opened", "not_opened", "exception"}

RECURSIVE open_from(_, _, _)
\* _open_camera from backend i on: the result and what self._cap is left as
\* ("closed" is a VideoCapture object that is not open)
open_from(outs, i, cap) ==
    IF i > Len(outs) THEN [ok |-> FALSE, cap |-> cap]
    ELSE IF outs[i] = "opened" THEN [ok |-> TRUE, cap |-> "open"]
    ELSE IF outs[i] = "not_opened" THEN open_from(outs, i + 1, "closed")
    ELSE open_from(outs, i + 1, "none")

open_camera_always_true(outs, cap) ==
    [ok |-> TRUE, cap |-> open_from(outs, 1, cap).cap]

\* _open_camera
open_camera(outs, cap) == open_from(outs, 1, cap)

\* get_frame
get_frame(c) == c.frame

\* one entry of cev: outs is kept as the number of backends tried and
\* whether one of them opened the device, before as the fields claims read
CEvent(op, ret, outs, demo, before) ==
    [op |-> op, ret |-> ret, tried |-> Len(outs),
     any_opened |-> \E k \in DOMAIN outs : outs[k] = "opened", demo |-> demo,
     before |-> [running |-> before.running, thread |-> before.thread,
                 cap |-> before.cap, started |-> before.started,
                 gave_up |-> before.gave_up]]

CCalls(op) == {i \in DOMAIN cev : cev[i].op = op}

\* start(): demo is settings.demo_mode, outs what each backend does
CamStart(demo, outs) ==
    LET o == open_camera(outs, cam.cap) IN
    /\ cam' =
         IF cam.running THEN cam
         ELSE IF demo
         THEN [cam EXCEPT !.running = TRUE, !.thread = "demo",
                          !.started = TRUE, !.gave_up = FALSE]
         ELSE IF ~o.ok THEN [cam EXCEPT !.cap = o.cap]
         ELSE [cam EXCEPT !.running = TRUE, !.thread = "capture",
                          !.cap = o.cap, !.started = TRUE, !.gave_up = FALSE,
                          !.streak = 0]
    /\ cev' = <<CEvent("start", "", outs, demo, cam)>>
    /\ UNCHANGED notCam

\* the end of _capture_loop: release the device
loop_ended(c) == [c EXCEPT !.thread = "ended", !.cap = "none"]

\* one turn of _capture_loop; r is what self._cap.read() does
CamRead(r) ==
    /\ cam.thread = "capture"
    /\ r # "frame" => cam.error_count < MaxCamErrors
    /\ cam' =
         IF ~cam.running \/ cam.cap = "none" THEN loop_ended(cam)
         ELSE IF r = "frame"
         THEN [cam EXCEPT !.error_count = 0, !.frame = "frame", !.streak = 0]
         ELSE IF cam.error_count + 1 >= max_consecutive_errors
         THEN [loop_ended(cam) EXCEPT !.error_count = @ + 1, !.gave_up = TRUE,
                                      !.streak = @ + 1]
         ELSE [cam EXCEPT !.error_count = @ + 1, !.streak = @ + 1]
    /\ cev' = <<CEvent("read", r, <<>>, FALSE, cam)>>
    /\ UNCHANGED notCam

\* one turn of _demo_capture_loop
CamDemoStep ==
    /\ cam.thread = "demo"
    /\ cam' = IF cam.running THEN [cam EXCEPT !.frame = "frame"]
              ELSE [cam EXCEPT !.thread = "ended"]
    /\ cev' = <<CEvent("demo_step", "", <<>>, TRUE, cam)>>
    /\ UNCHANGED notCam

\* a caller asks for the current frame
CamGetFrame ==
    /\ cev' = <<CEvent("get_frame", get_frame(cam), <<>>, FALSE, cam)>>
    /\ UNCHANGED <<cam, notCam>>

\* stop(); joined says whether the thread ended within the 3 s of join()
CamStop(joined) ==
    /\ cam' = [cam EXCEPT
         !.running = FALSE,
         !.cap = "none",
         !.thread = IF joined /\ @ \in {"capture", "demo"} THEN "ended" ELSE @]
    /\ cev' = <<CEvent("stop", "", <<>>, FALSE, cam)>>
    /\ UNCHANGED notCam

NextCam ==
    \/ CamStart(TRUE, <<>>)
    \/ \E n \in BackendCounts :
          \E outs \in [1..n -> OpenOutcomes] : CamStart(FALSE, outs)
    \/ \E r \in {"frame", "fail", "exception"} : CamRead(r)
    \/ CamDemoStep
    \/ CamGetFrame
    \/ \E joined \in BOOLEAN : CamStop(joined)

SpecCam == Init /\ [][NextCam]_vars

\* C25: after the camera loop has ended itself because of consecutive read
\* failures, every later frame request returns "no frame".
C25_NoFrameAfterGiveUp ==
    \A i \in CCalls("get_frame") :
        cev[i].before.gave_up => cev[i].ret = "none"

\* C26: a frame request made when no camera has been opened (the service
\* was never started, or start() could not open the device with any
\* backend) returns "no frame", and a start() that fails to open the device
\* leaves the service idle: not running and with no capture thread.
C26_IdleWithoutCamera ==
    /\ \A i \in CCalls("get_frame") :
          ~cev[i].before.started => cev[i].ret = "none"
    /\ \A i \in CCalls("start") :
          (/\ ~cev[i].demo
           /\ ~cev[i].before.running
           /\ ~cev[i].any_opened) =>
              /\ ~cam.running
              /\ cam.thread = cev[i].before.thread
              /\ ~cev[i].before.started => cam.thread = "none"
              /\ cam.cap # "open"
              /\ ~cam.started = ~cev[i].before.started

\* a frame is asked for after a start() that no backend could serve
C26_Witness ==
    \E i \in CCalls("get_frame") :
        /\ ~cev[i].before.started
        /\ cev[i].before.cap = "closed"
        /\ cev[i].before.thread = "none"
        /\ cev[i].ret = "none"

\* start() has tried V4L2 and Auto and neither opened the device
C26_WitnessStart ==
    \E i \in CCalls("start") :
        /\ ~cev[i].demo
        /\ cev[i].tried = 2
        /\ ~cev[i].any_opened
        /\ ~cam.running
        /\ cam.thread = "none"


(***************************************************************************)
(* ContinuousMicrophone: start, the recording and transcription threads,   *)
(* _trigger_summarization, stop                                            *)
(***************************************************************************)
\* the test both recording loops make after each turn
interval_elapsed(c, t) == t - c.last_summarize_time >= SUMMARIZATION_INTERVAL

append_transcript_keeps_oldest(ts, text) ==
    LET a == Append(ts, text) IN
    IF Len(a) > transcripts_cap THEN SubSeq(a, 1, transcripts_kept) ELSE a

\* the locked section of _transcription_loop: append, then keep the last 50
\* when more than 100 are held (self._transcripts[-50:])
append_transcript(ts, text) ==
    LET a == Append(ts, text) IN
    IF Len(a) > transcripts_cap
    THEN SubSeq(a, Len(a) - transcripts_kept + 1, Len(a))
    ELSE a

\* where _trigger_summarization runs the coroutine of the callback: the
\* event loop main() passed is running until main() has returned
callback_runs_on(c) ==
    IF c.main # "exited" THEN "event_loop" ELSE "capture_thread"

\* self._audio_queue.put_nowait in _recording_loop: queue.Full is raised,
\* and the chunk dropped, when the queue has a maxsize and holds that many
put_nowait(q, item) ==
    IF audio_queue_maxsize > 0 /\ Len(q) >= audio_queue_maxsize THEN q
    ELSE Append(q, item)

\* _cleanup_audio
cleanup_audio(c) == [c EXCEPT !.stream = "none"]

\* one entry of mev: res is the outcome of the step, done says that a call
\* of _trigger_summarization returned in this step, invoked that it called
\* the callback, with batch
MEvent(op, res, done, invoked, batch, before) ==
    [op |-> op, res |-> res, done |-> done, invoked |-> invoked,
     batch |-> batch,
     before |-> [transcripts |-> before.transcripts, batch |-> before.batch,
                 main |-> before.main]]

MNote(op, res) == MEvent(op, res, FALSE, FALSE, <<>>, mic)

\* main() starts the microphone: whisper says that the model loads, demo
\* that settings.demo_mode is set or pyaudio is missing, opened that the
\* audio stream opens
MicStart(whisper, demo, opened) ==
    LET reset == [mic EXCEPT !.whisper_loaded = whisper,
                             !.error_count = 0,
                             !.last_summarize_time = mclock,
                             !.transcripts = <<>>,
                             !.audio_buffer = <<>>,
                             !.main = "serving"] IN
    /\ mic.main = "constructed"
    /\ mic' =
         IF mic.running THEN [mic EXCEPT !.main = "serving"]
         ELSE IF demo
         THEN [reset EXCEPT !.running = TRUE, !.thread = "loop",
                            !.mode = "demo"]
         ELSE IF ~opened THEN cleanup_audio(reset)
         ELSE [reset EXCEPT !.stream = "open", !.running = TRUE,
                            !.thread = "loop", !.mode = "live",
                            !.tthread = IF whisper THEN "loop" ELSE "none"]
    /\ mev' = <<MNote("start", IF demo THEN "demo"
                               ELSE IF opened THEN "live" ELSE "failed")>>
    /\ UNCHANGED <<mclock, notMic>>

\* one turn of _recording_loop; r is what self._stream.read does
MicRead(r) ==
    /\ mic.mode = "live"
    /\ mic.thread = "loop"
    /\ mic' =
         IF ~mic.running THEN cleanup_audio([mic EXCEPT !.thread = "ended"])
         ELSE IF r # "data"
         THEN IF mic.error_count + 1 >= mic_max_consecutive_errors
              THEN cleanup_audio([mic EXCEPT !.error_count = @ + 1,
                                             !.thread = "ended"])
              ELSE [mic EXCEPT !.error_count = @ + 1]
         ELSE [mic EXCEPT
                 !.error_count = 0,
                 !.audio_buffer = Append(@, "chunk"),
                 !.audio_queue = IF mic.whisper_loaded
                                 THEN put_nowait(@, "chunk") ELSE @,
                 !.thread = IF interval_elapsed(mic, mclock)
                            THEN "trigger" ELSE "loop"]
    /\ mev' = <<MNote("read", IF mic.running THEN r ELSE "stopped")>>
    /\ UNCHANGED <<mclock, notMic>>

\* one turn of _demo_recording_loop
MicDemoStep ==
    /\ mic.mode = "demo"
    /\ mic.thread = "loop"
    /\ mic' =
         IF ~mic.running THEN [mic EXCEPT !.thread = "ended"]
         ELSE [mic EXCEPT !.thread = IF interval_elapsed(mic, mclock)
                                     THEN "trigger" ELSE "loop"]
    /\ mev' = <<MNote("demo_step", IF mic.running THEN "" ELSE "stopped")>>
    /\ UNCHANGED <<mclock, notMic>>

\* _trigger_summarization, the section under _transcripts_lock: return when
\* there is no transcript, else copy the buffer and clear it
MicSnapshot ==
    /\ mic.thread = "trigger"
    /\ IF mic.transcripts = <<>>
       THEN /\ mic' = [mic EXCEPT !.last_summarize_time = mclock,
                                  !.thread = "loop"]
            /\ mev' = <<MEvent("snapshot", "returned", TRUE, FALSE, <<>>,
                               mic)>>
       ELSE /\ mic' = [mic EXCEPT !.batch = mic.transcripts,
                                  !.transcripts = <<>>,
                                  !.thread = "callback"]
            /\ mev' = <<MNote("snapshot", "copied")>>
    /\ UNCHANGED <<mclock, notMic>>

\* _trigger_summarization after the snapshot: clear the raw-audio buffer,
\* call the callback and run its coroutine, note the time
MicCallback ==
    /\ mic.thread = "callback"
    /\ mic' = [mic EXCEPT
         !.audio_buffer = <<>>,
         !.delivered = IF mic.on_summarize THEN @ \o mic.batch ELSE @,
         !.batch = <<>>,
         !.last_summarize_time = mclock,
         !.thread = "loop"]
    /\ mev' = <<MEvent("callback",
                       IF mic.on_summarize THEN callback_runs_on(mic)
                       ELSE "no_callback",
                       TRUE, mic.on_summarize, mic.batch, mic)>>
    /\ UNCHANGED <<mclock, notMic>>

\* one turn of _transcription_loop: take a chunk from the queue if there is
\* one, and once ten are collected transcribe them; o is what the model
\* makes of the segment
MicTranscribe(o) ==
    LET got == mic.audio_queue # <<>>
        seg == IF got THEN mic.segment_buffer + 1 ELSE mic.segment_buffer
        q == IF got THEN Tail(mic.audio_queue) ELSE mic.audio_queue IN
    /\ mic.tthread = "loop"
    /\ mic' =
         IF ~mic.running THEN [mic EXCEPT !.tthread = "ended"]
         ELSE IF seg < chunks_per_segment
         THEN [mic EXCEPT !.audio_queue = q, !.segment_buffer = seg]
         ELSE IF o = "text"
         THEN [mic EXCEPT
                 !.audio_queue = q,
                 !.segment_buffer = 0,
                 !.produced = @ + 1,
                 !.transcripts = append_transcript(@, mic.produced + 1)]
         ELSE [mic EXCEPT !.audio_queue = q, !.segment_buffer = 0]
    /\ mev' = <<MNote("transcribe",
                      IF ~mic.running THEN "stopped"
                      ELSE IF seg < chunks_per_segment THEN "collecting"
                      ELSE o)>>
    /\ UNCHANGED <<mclock, notMic>>

\* main() calls stop(): the flag is cleared and the threads are joined
MicStop ==
    /\ mic.main = "serving"
    /\ mic' = [mic EXCEPT !.running = FALSE, !.main = "joining"]
    /\ mev' = <<MNote("stop", "")>>
    /\ UNCHANGED <<mclock, notMic>>

\* stop() returns: each join has ended, with the thread or after its 5 s,
\* and the audio stream is closed
MicStopReturn ==
    /\ mic.main = "joining"
    /\ mic' = cleanup_audio([mic EXCEPT !.main = "stopped"])
    /\ mev' = <<MNote("stop_return", "")>>
    /\ UNCHANGED <<mclock, notMic>>

\* main() returns and asyncio.run closes the event loop
MicLoopClose ==
    /\ mic.main = "stopped"
    /\ mic' = [mic EXCEPT !.main = "exited"]
    /\ mev' = <<MNote("loop_close", "")>>
    /\ UNCHANGED <<mclock, notMic>>

\* time passes
MicAdvance ==
    /\ mclock + MicTick <= MaxMicTime
    /\ mclock' = mclock + MicTick
    /\ mev' = <<>>
    /\ UNCHANGED <<mic, notMic>>

\* a chunk is read while the buffers of the model have room for it
MicReadInput(r) ==
    r = "data" => /\ Len(mic.audio_buffer) < MaxChunks
                  /\ Len(mic.audio_queue) < MaxQueued

NextMic ==
    \/ \E whisper, demo, opened \in BOOLEAN : MicStart(whisper, demo, opened)
    \/ \E r \in {"data", "oserror", "exception"} :
          MicReadInput(r) /\ MicRead(r)
    \/ MicDemoStep
    \/ MicSnapshot
    \/ MicCallback
    \/ \E o \in {"text", "silence", "error"} :
          (o = "text" => mic.produced < MaxTranscripts) /\ MicTranscribe(o)
    \/ MicStop
    \/ MicStopReturn
    \/ MicLoopClose
    \/ MicAdvance

SpecMic == Init /\ [][NextMic]_vars

\* a live microphone with transcription that records and transcribes until
\* the rolling buffer has been cut
NextMicCap ==
    \/ MicStart(TRUE, FALSE, TRUE)
    \/ /\ Len(mic.audio_buffer) < MaxCapChunks
       /\ Len(mic.audio_queue) < MaxQueued
       /\ MicRead("data")
    \/ mic.produced < MaxAppends /\ MicTranscribe("text")

SpecMicCap == Init /\ [][NextMicCap]_vars

\* the steps in which a call of _trigger_summarization returned
MDone == {i \in DOMAIN mev : mev[i].done}

MSteps(op) == {i \in DOMAIN mev : mev[i].op = op}

\* C27: when no speech-to-text capability is available (so no transcript is
\* ever produced), the summarization callback is still invoked once each
\* time the summarization interval elapses, with an empty transcript set.
C27_CallbackFiresWithoutTranscripts ==
    \A i \in MDone :
        ~mic.whisper_loaded => mev[i].invoked /\ mev[i].batch = <<>>

\* C28: each time the summarization interval elapses, the transcript buffer
\* and the raw-audio buffer are both emptied and the callback then receives
\* exactly the transcripts that were in the buffer at the snapshot, in
\* order; a transcript the transcription stage appends meanwhile is neither
\* lost nor delivered in two batches.
C28_SnapshotClearedAndDeliveredOnce ==
    /\ \A i \in MSteps("snapshot") :
          /\ mic.transcripts = <<>>
          /\ mic.batch = mev[i].before.transcripts
    /\ \A i \in MDone :
          /\ mev[i].invoked
          /\ mev[i].batch = IF mev[i].op = "snapshot"
                            THEN mev[i].before.transcripts
                            ELSE mev[i].before.batch
          /\ mic.audio_buffer = <<>>
    /\ mic.delivered \o mic.batch \o mic.transcripts
         = [k \in 1..mic.produced |-> k]

\* C29: the coroutine of the summarization callback is always run on the
\* server's event loop, handed over from the capture thread by a
\* thread-safe scheduling call, and never on the capture thread itself.
C29_CallbackRunsOnEventLoop ==
    \A i \in MDone : mev[i].invoked => mev[i].res = "event_loop"

\* C30: the rolling transcript buffer never holds more than 100 entries
\* once an append has completed, and an append that takes it past 100 cuts
\* it to exactly its 50 newest entries, in their order, the oldest ones
\* being discarded.
C30_BufferCutToNewestHalf ==
    /\ Len(mic.transcripts) <= 100
    /\ \A i \in MSteps("transcribe") :
          mev[i].res = "text" =>
              LET a == Append(mev[i].before.transcripts, mic.produced) IN
              IF Len(a) > 100
              THEN /\ Len(mic.transcripts) = 50
                   /\ \A k \in 1..50 : mic.transcripts[k] = a[Len(a) - 50 + k]
              ELSE mic.transcripts = a

\* the 101st transcript is appended to a full buffer and 52..101 are kept
C30_Witness ==
    \E i \in MSteps("transcribe") :
        /\ mev[i].res = "text"
        /\ Len(mev[i].before.transcripts) = 100
        /\ mev[i].before.transcripts[1] = 1
        /\ Len(mic.transcripts) = 50
        /\ mic.transcripts[1] = 52
        /\ mic.transcripts[50] = 101

(***************************************************************************)
(* identify_person of the module: one result per detected face             *)
(***************************************************************************)
MaxFaces == 2               \* faces detected in one frame
MaxRelatives == 2           \* relatives the registry returns
MaxStored == 2              \* embeddings of shape (512,) among them

\* similarity scores in hundredths, around the threshold
ScoreValues == {39, 40, 41}

\* the face_embeddings of one relative: "valid" has shape (512,)
EmbeddingLists == {<<>>, <<"valid">>, <<"invalid", "valid">>, <<"valid", "valid">>}

RegistryShapes == UNION {[1..n -> EmbeddingLists] : n \in 0..MaxRelatives}

FaceLists == UNION {[1..n -> {"ok", "malformed"}] : n \in 0..MaxFaces}

ApiErrors == {"", "Cannot connect to backend", "Authentication failed"}

IsValid(e) == e = "valid"

RECURSIVE relative_embedding_map(_, _)
\* relative_embedding_map: the relative owning each stored embedding that
\* is kept, in the order the embeddings are kept (relatives from i on)
relative_embedding_map(rels, i) ==
    IF i > Len(rels) THEN <<>>
    ELSE [k \in 1..Len(SelectSeq(rels[i], IsValid)) |-> i]
             \o relative_embedding_map(rels, i + 1)

argmax_last(row) ==
    CHOOSE b \in DOMAIN row :
        /\ \A k \in DOMAIN row : row[k] <= row[b]
        /\ \A k \in DOMAIN row : k > b => row[k] < row[b]

\* np.argmax: the first index holding the largest value
argmax(row) ==
    CHOOSE b \in DOMAIN row :
        /\ \A k \in DOMAIN row : row[k] <= row[b]
        /\ \A k \in DOMAIN row : k < b => row[k] < row[b]

\* what fetch_relatives can return
Registries ==
    {r \in RegistryShapes : Len(relative_embedding_map(r, 1)) <= MaxStored}

\* one result: person is the matched relative, 0 for "unknown"
FaceResult(person, confidence, error) ==
    [person |-> person, confidence |-> confidence, error |-> error]

\* the list returned when no face is matched: "unknown" for every face
all_unknown(faces, error) ==
    [f \in DOMAIN faces |-> FaceResult(0, 0, error)]

\* some detected face carries an embedding np.array cannot stack
HasMalformed(faces) == \E f \in DOMAIN faces : faces[f] = "malformed"

\* identify_person: faces are the detected faces (none when the image is
\* invalid or detection fails), api_error and relatives what fetch_relatives
\* returns, build whether np.array builds the query embeddings, compare
\* whether the comparison succeeds, sim the similarity matrix
identify_person(in) ==
    LET map == relative_embedding_map(in.relatives, 1) IN
    IF in.faces = <<>> THEN <<>>
    ELSE IF in.api_error # "" THEN all_unknown(in.faces, in.api_error)
    ELSE IF in.relatives = <<>> THEN all_unknown(in.faces, "")
    ELSE IF in.build = "raises" THEN <<>>
    ELSE IF map = <<>> THEN all_unknown(in.faces, "")
    ELSE IF in.compare = "raises"
    THEN all_unknown(in.faces, "comparison_failed")
    ELSE [f \in DOMAIN in.faces |->
            LET best_match_idx == argmax(in.sim[f])
                best_score == in.sim[f][best_match_idx] IN
            IF best_score >= face_confidence_threshold
            THEN FaceResult(map[best_match_idx], best_score, "")
            ELSE FaceResult(0, best_score, "")]

\* the similarity matrices a call can see: one row per face and one column
\* per kept embedding when the comparison is reached and succeeds
SimilarityMatrices(in) ==
    LET map == relative_embedding_map(in.relatives, 1) IN
    IF in.build = "ok" /\ in.compare = "ok" /\ in.faces # <<>> /\ map # <<>>
    THEN [DOMAIN in.faces -> [DOMAIN map -> ScoreValues]]
    ELSE {<<>>}

\* the inputs of one call: a malformed embedding makes np.array raise or,
\* stacked as objects, makes the comparison raise
IdentifyInputs ==
    {in \in [faces : FaceLists, api_error : ApiErrors, relatives : Registries,
             build : {"ok", "raises"}, compare : {"ok", "raises"}] :
        /\ in.build = "raises" => HasMalformed(in.faces)
        /\ HasMalformed(in.faces) => in.build = "raises" \/ in.compare = "raises"
        /\ in.api_error # "" => in.relatives = <<>>}

\* one call of identify_person; a run of SpecFR is one call
FRIdentify ==
    /\ fev = <<>>
    /\ \E in \in IdentifyInputs :
         \E sim \in SimilarityMatrices(in) :
            LET call == [faces |-> in.faces, api_error |-> in.api_error,
                         relatives |-> in.relatives, build |-> in.build,
                         compare |-> in.compare, sim |-> sim] IN
            fev' = <<[in |-> call, results |-> identify_person(call)]>>
    /\ UNCHANGED notFR

NextFR == FRIdentify

SpecFR == Init /\ [][NextFR]_vars

RECURSIVE KeptUpTo(_, _)
\* how many embeddings of the first r relatives have shape (512,)
KeptUpTo(rels, r) ==
    IF r = 0 THEN 0
    ELSE KeptUpTo(rels, r - 1)
           + Cardinality({k \in DOMAIN rels[r] : rels[r][k] = "valid"})

\* the relative whose embedding is the k-th one kept
OwnerOf(rels, k) ==
    CHOOSE r \in DOMAIN rels : KeptUpTo(rels, r - 1) < k /\ k <= KeptUpTo(rels, r)

\* the calls of identify_person that compared the faces with the registry
Compared == {i \in DOMAIN fev : fev[i].in.sim # <<>>}

C31_WitnessUnknown ==
    \E i \in Compared :
        /\ fev[i].in.sim = <<<<39, 39>>>>
        /\ fev[i].results[1].person = 0

\* C32: whenever at least one face is detected, identify_person returns
\* exactly one result per detected face: a registry fetch failure, an empty
\* registry, a comparison failure or a malformed embedding on one face turn
\* the affected faces into "unknown" results (with an error tag where an
\* error occurred) and never shorten or empty the list.
C32_OneResultPerFace ==
    \A i \in DOMAIN fev :
        LET in == fev[i].in
            res == fev[i].results IN
        /\ Len(res) = Len(in.faces)
        /\ (in.api_error # "" \/ in.relatives = <<>> \/ in.compare = "raises"
               \/ HasMalformed(in.faces)) =>
              \A f \in DOMAIN res : res[f].person = 0
        /\ in.api_error # "" => \A f \in DOMAIN res : res[f].error = in.api_error

\* the turns of the capture loop that read from an open device
CReads == {i \in CCalls("read") : cev[i].before.running /\ cev[i].before.cap = "open"}

\* C33: the capture loop ends itself and releases the device exactly when
\* 10 reads in a row have failed since the loop was started; a successful
\* read resets the count to zero, so fewer than 10 failures in a row never
\* stop a running loop, also one started again after a stop().
C33_LoopEndsAtTenFailuresInARow ==
    \A i \in CReads :
        IF cev[i].ret = "frame"
        THEN cam.error_count = 0 /\ cam.thread = "capture"
        ELSE /\ cam.thread = "ended" <=> cam.streak = 10
             /\ cam.thread = "ended" => cam.cap = "none"

\* C34: if the re-registration attempted during disconnect handling fails,
\* a later failed heartbeat triggers another re-registration attempt, so
\* re-registration keeps being retried for as long as heartbeats keep
\* failing.  (The failure counter is past the threshold exactly when a
\* heartbeat fails after a re-registration that failed.)
C34_FailedReRegistrationRetried ==
    \A i \in BCalls("disconnect") :
        heartbeat_failures > max_heartbeat_failures =>
            /\ ~bev[i].ret
            /\ bpc = "reg_post"
            /\ reg.caller = "disconnect"

\* the chunks the recording loop has handed to the transcription queue
MQueued == {i \in MSteps("read") : mev[i].res = "data" /\ mic.whisper_loaded}

\* C35: the transcription work queue of the continuous microphone is
\* bounded: it has a fixed capacity that its length never exceeds, and a
\* chunk that arrives while the queue is full is dropped, not enqueued.
C35_QueueBounded ==
    \A i \in MQueued :
        /\ audio_queue_maxsize > 0
        /\ Len(mic.audio_queue) <= audio_queue_maxsize

\* C36: in every reachable state of a circuit breaker (failure_threshold >=
\* 1), state = closed exactly when failures < failure_threshold; in the
\* open and half-open states failures >= failure_threshold and
\* last_failure_time is set, so a failure recorded during a half-open trial
\* opens the breaker again.
C36_ClosedIffBelowThreshold ==
    /\ \A u \in DOMAIN circuit_breakers :
          LET b == circuit_breakers[u] IN
          /\ b.state \in {"closed", "open", "half-open"}
          /\ b.state = "closed" <=> b.failures < failure_threshold
          /\ b.state # "closed" => b.last_failure_time # NoTime
    /\ \A i \in Calls("record_failure") :
          ev[i].before.state = "half-open" => ev[i].cb.state = "open"

\* the trial of a half-open breaker fails and the breaker is open again
C36_Witness ==
    \E i \in Calls("record_failure") :
        /\ ev[i].before.state = "half-open"
        /\ ev[i].before.failures = failure_threshold
        /\ ev[i].cb.state = "open"
        /\ ev[i].cb.failures = failure_threshold + 1

\* outcomes recorded on the breaker in the step that answered a request
RecordedWith(op) == Cardinality({j \in DOMAIN ev : ev[j].op = op})

\* C37: every identification request that can_execute() admitted and that
\* was forwarded to the device records exactly one outcome on the caller's
\* breaker before its response is returned: one record_success or one
\* record_failure, never none and never both.  (The 502 answer of a connect
\* failure is returned one step after its record_failure, alone in ev; the
\* breaker then has a failure time.)
C37_ExactlyOneOutcomeRecorded ==
    /\ \A i \in Calls("respond") :
          (ev[i].contacted /\ Len(ev) > 1) =>
              RecordedWith("record_success") + RecordedWith("record_failure") = 1
    /\ \A r \in ReqIds :
          requests[r].pc = "upsert" =>
              circuit_breakers[requests[r].uid].last_failure_time # NoTime

\* C39: a connect failure while an identification request is forwarded to a
\* device changes only that device's circuit breaker; the step that follows
\* the recorded failure leaves the device's registry record as it was.
C39_ConnectFailureLeavesRegistry ==
    [][\A r \in ReqIds :
          (requests[r].pc = "upsert" /\ requests'[r].pc = "idle") =>
              modules' = modules]_vars

(***************************************************************************)
(* The session tables at the awaits of the shutdown notice                 *)
(* (ws_server.py:101-110, 290-293)                                         *)
(***************************************************************************)
\* lines 101-108: a frame arrives while the server is shutting down; the
\* handler notes the activity and awaits the sending of the notice
WsShutdownNotice(s) ==
    /\ sess[s].pc = "recv"
    /\ sess[s].open
    /\ shutting_down
    /\ client_last_activity' = Put(client_last_activity, s, gclock)
    /\ sess' = [sess EXCEPT ![s].pc = "notice"]
    /\ gev' = <<GNote("shutdown_notice", s)>>
    /\ UNCHANGED <<connected_clients, session_auth, shutting_down,
                   active_video_streams, stream, gclock, sd, rp, listener,
                   notGW>>

\* lines 108-110, 286-293: send_json returns or raises, the loop is left and
\* the finally block runs
WsNoticeSent(s) ==
    /\ sess[s].pc = "notice"
    /\ Forget({s}, client_last_activity)
    /\ sess' = [sess EXCEPT ![s].pc = "done", ![s].open = FALSE]
    /\ gev' = <<GNote("notice_sent", s)>>
    /\ UNCHANGED <<shutting_down, active_video_streams, stream, gclock, sd,
                   rp, listener, notGW>>

\* session handlers, the reaper and the shutdown sequence, one step from
\* one await to the next
NextTables ==
    \/ \E s \in Sessions : WsAccept(s)
    \/ \E s \in Sessions :
          /\ ~shutting_down
          /\ WsMessage(s, Command("ping"), "frame")
    \/ \E s \in Sessions : WsShutdownNotice(s)
    \/ \E s \in Sessions : WsNoticeSent(s)
    \/ \E s \in Sessions : WsPeerClose(s)
    \/ \E s \in Sessions : WsHandlerExit(s)
    \/ \E t \in ReaperInstants : GAdvance(t)
    \/ ReaperScan
    \/ ReaperClosed
    \/ ShutdownBegin
    \/ ShutdownWake
    \/ ShutdownWsClosed

SpecTables == Init /\ [][NextTables]_vars

\* C38: at every point where the event loop can switch tasks the three
\* session tables (connected clients, last-activity times, session
\* credentials) hold exactly the same set of sessions.
C38_SessionTablesAgree ==
    /\ DOMAIN client_last_activity = connected_clients
    /\ DOMAIN session_auth = connected_clients

(***************************************************************************)
(* The user connection registry of the remote service (routes/ws.py)       *)
(* One user; the connections are numbered in the order ws.accept() returns *)
(***************************************************************************)
UNote(op, c) == [op |-> op, c |-> c, registry |-> connections]

\* asyncio.Lock: acquire() queues the task, the head of the queue holds it
acquire(lock, c) == Append(lock, c)
release(lock) == Tail(lock)
holds(lock, c) == lock # <<>> /\ Head(lock) = c

\* lines 29-39: the token is verified, ws.accept() returns and the handler
\* asks for the registry lock
UrAccept(c) ==
    /\ conn[c].pc = "none"
    /\ \A d \in 1..(c - 1) : conn[d].pc # "none"
    /\ conn' = [conn EXCEPT ![c].pc = "wait_lock", ![c].open = TRUE]
    /\ connections_lock' = acquire(connections_lock, c)
    /\ uev' = <<UNote("accept", c)>>
    /\ UNCHANGED <<connections, notUR>>

\* lines 39-46 up to the first await: with no older connection the entry is
\* written and the lock released, otherwise old_ws.close() is awaited
UrEnter(c) ==
    /\ conn[c].pc = "wait_lock"
    /\ holds(connections_lock, c)
    /\ IF connections = NoEntry
       THEN /\ connections' = c
            /\ conn' = [conn EXCEPT ![c].pc = "recv", ![c].registered = TRUE]
            /\ connections_lock' = release(connections_lock)
       ELSE /\ conn' = [conn EXCEPT ![c].pc = "closing_old"]
            /\ UNCHANGED <<connections, connections_lock>>
    /\ uev' = <<UNote("enter", c)>>
    /\ UNCHANGED notUR

\* lines 43-46: old_ws.close() returns or raises; the entry is overwritten
UrOldClosed(c) ==
    /\ conn[c].pc = "closing_old"
    /\ conn' = [conn EXCEPT ![connections].open = FALSE, ![c].pc = "recv",
                            ![c].registered = TRUE]
    /\ connections' = c
    /\ connections_lock' = release(connections_lock)
    /\ uev' = <<UNote("replace", c)>>
    /\ UNCHANGED notUR

\* the client closes the connection, or the network drops it
UrPeerClose(c) ==
    /\ conn[c].pc \in {"wait_lock", "closing_old", "recv"}
    /\ conn[c].open
    /\ conn' = [conn EXCEPT ![c].open = FALSE]
    /\ uev' = <<UNote("peer_close", c)>>
    /\ UNCHANGED <<connections, connections_lock, notUR>>

\* lines 50, 78-79 (81-82): receive_text raises on the closed connection and
\* the handler asks for the lock
UrDisconnected(c) ==
    /\ conn[c].pc = "recv"
    /\ ~conn[c].open
    /\ conn' = [conn EXCEPT ![c].pc = "wait_pop"]
    /\ connections_lock' = acquire(connections_lock, c)
    /\ uev' = <<UNote("disconnected", c)>>
    /\ UNCHANGED <<connections, notUR>>

\* lines 79-80 (82-83): _connections.pop(user_uid, None) under the lock
UrPop(c) ==
    /\ conn[c].pc = "wait_pop"
    /\ holds(connections_lock, c)
    /\ connections' = NoEntry
    /\ conn' = [conn EXCEPT ![c].pc = "done"]
    /\ connections_lock' = release(connections_lock)
    /\ uev' = <<UNote("pop", c)>>
    /\ UNCHANGED notUR

\* lines 107-114: send_to_user finds the lock free and an entry whose
\* connection is closed; send_json raises and the entry is removed
UrSendFails ==
    /\ connections_lock = <<>>
    /\ connections # NoEntry
    /\ ~conn[connections].open
    /\ connections' = NoEntry
    /\ uev' = <<UNote("send_failed", connections)>>
    /\ UNCHANGED <<connections_lock, conn, notUR>>

NextUR ==
    \/ \E c \in Conns : UrAccept(c)
    \/ \E c \in Conns : UrEnter(c)
    \/ \E c \in Conns : UrOldClosed(c)
    \/ \E c \in Conns : UrPeerClose(c)
    \/ \E c \in Conns : UrDisconnected(c)
    \/ \E c \in Conns : UrPop(c)
    \/ UrSendFails

SpecUR == Init /\ [][NextUR]_vars

\* the connection that was written to the registry last
LatestRegistered(c) ==
    /\ conn[c].registered
    /\ \A d \in Conns : d > c => ~conn[d].registered

\* C40: for as long as a user's most recently accepted connection is open
\* the registry maps the user to that connection; replacing an older
\* connection and the later cleanup of the older connection's handler never
\* remove or overwrite the entry of the newer one.
C40_LatestOpenConnectionRegistered ==
    \A c \in Conns :
        (LatestRegistered(c) /\ conn[c].open) => connections = c
=============================================================================
